---- MODULE Spec2Model ----
(***************************************************************************)
(* A model of znewsham:auto-encrypt (server.js): the path schema, the      *)
(* structural walker newFunction, the provider caches and the patched      *)
(* collection operations.                                                  *)
(*                                                                         *)
(* Representation.  A JavaScript value is a record tagged by t:            *)
(*   "str"   a non-object scalar (string, number, boolean), named by s     *)
(*   "null"  null (typeof null === "object")                               *)
(*   "obj"   a plain object; e is the sequence of its <<key, value>>       *)
(*           entries in Object.entries order                               *)
(*   "arr"   an array; a is the sequence of its elements                   *)
(*   "bin"   a ciphertext (Buffer / Uint8Array); of is the plaintext the   *)
(*           provider made it from, alg the algorithm used                 *)
(*   "chars" what the walker makes of a scalar it is asked to iterate      *)
(* A dotted key "object.inner" is the sequence <<"object", "inner">> of     *)
(* its segments, so that str.split(".") is the identity on the model key,  *)
(* parts[0] is key[1] and parts.slice(1).join(".") is Tail(key).           *)
(***************************************************************************)
EXTENDS Integers, Sequences, FiniteSets, TLC

Str(s) == [t |-> "str", s |-> s]
Null == [t |-> "null"]
Obj(e) == [t |-> "obj", e |-> e]
Arr(a) == [t |-> "arr", a |-> a]
Bin(v, alg) == [t |-> "bin", of |-> v, alg |-> alg]
Chars(v) == [t |-> "chars", of |-> v]

\* A thrown exception, where a value was expected.
Thrown == [t |-> "throw"]
\* The key of an entry that the walker never assigned.
Dropped == [t |-> "dropped"]

\* typeof value === "object"
TypeofObject(v) == v.t \in {"obj", "arr", "null", "bin"}

\* The numeric key of an array element: index 0 (falsy) and any later index.
Index0 == <<"#0">>
IndexN == <<"#n">>
IsIndex(key) == key \in {Index0, IndexN}
\* actualKey undefined
NoKey == <<>>

-----------------------------------------------------------------------------
(* Operator vocabulary                                                     *)

passthroughOperators_ExistsOnly == {"$exists"}

passthroughOperators == {"$exists", "$size"}

supportedOperators ==
  {"$in", "$not", "$nin", "$eq", "$ne", "$nor", "$and", "$or", "$exists", "$each", "$size"}

arrayOperators_NoNor == {"$and", "$or"}

arrayOperators == {"$and", "$or", "$nor"}

nestedOperators == {"$in", "$nin", "$not", "$each", "$eq"}

\* set.has(key) for a key that is a string
HasOp(set, key) == Len(key) = 1 /\ key[1] \in set

-----------------------------------------------------------------------------
(* EncryptionSchema.  A schema node is [t |-> "schema", m |-> entries],     *)
(* entries the set of <<path, leaf>> that addKey was called with at this   *)
(* node.  Its _map holds every such path and, for a path of several        *)
(* segments, the first segment mapped to the sub-schema of the remainders. *)

Leaf(l) == [t |-> "leaf", l |-> l]
Node(m) == [t |-> "schema", m |-> m]
\* false / undefined
NoMatch == [t |-> "none"]

\* JavaScript truthiness of what a schema lookup returns
Truthy(x) == x.t = "schema" \/ (x.t = "leaf" /\ x.l # "false")

MapHas_ExactOnly(m, str) == \E en \in m : en[1] = str

\* this._map.has(str)
MapHas(m, str) ==
  \/ \E en \in m : en[1] = str
  \/ Len(str) = 1 /\ \E en \in m : Len(en[1]) > 1 /\ en[1][1] = str[1]

MapGet_LeavesOnly(m, str) ==
  IF \E en \in m : en[1] = str
    THEN Leaf((CHOOSE en \in m : en[1] = str)[2])
    ELSE NoMatch

\* this._map.get(str)
MapGet(m, str) ==
  IF \E en \in m : en[1] = str
    THEN Leaf((CHOOSE en \in m : en[1] = str)[2])
  ELSE IF Len(str) = 1 /\ \E en \in m : Len(en[1]) > 1 /\ en[1][1] = str[1]
    THEN Node({<<Tail(en[1]), en[2]>> : en \in {x \in m : Len(x[1]) > 1 /\ x[1][1] = str[1]}})
  ELSE NoMatch

\* str.split(".") of a number is a TypeError: an index reaches it as Thrown.
RECURSIVE get(_, _)
get(m, str) ==
  IF MapHas(m, str) THEN MapGet(m, str)
  ELSE
    LET \* const parts = str.split("."): traverse down by the first segment
        Prefixed(subSchema) ==
          IF subSchema.t = "schema" THEN get(subSchema.m, Tail(str)) ELSE subSchema
        Traverse ==
          IF IsIndex(str) THEN Thrown
          ELSE IF Len(str) = 1 THEN NoMatch
          ELSE Prefixed(MapGet(m, <<str[1]>>))
        \* subSchema = str !== "$" && this._map.get("*")
        Wildcard(subSchema) == IF Truthy(subSchema) THEN subSchema ELSE Traverse
        \* subSchema = str !== "*" && this._map.get("$")
        Array(subSchema) ==
          IF Truthy(subSchema)
            THEN (IF subSchema.t = "schema" THEN get(subSchema.m, str) ELSE subSchema)
            ELSE Wildcard(IF str # <<"$">> THEN MapGet(m, <<"*">>) ELSE NoMatch)
    IN Array(IF str # <<"*">> THEN MapGet(m, <<"$">>) ELSE NoMatch)

\* Option objects are functions from option names to values; {} is EmptyOpts.
EmptyOpts == [k \in {} |-> ""]
Opts(o) == [t |-> "opts", o |-> o]
\* Object.assign({...base}, over)
Merge(base, over) ==
  [k \in DOMAIN base \cup DOMAIN over |-> IF k \in DOMAIN over THEN over[k] ELSE base[k]]

\* the value true
True == [t |-> "true"]

LeafOptions_NoCall(l) ==
  [r |-> IF l = "true" THEN Opts(EmptyOpts) ELSE IF l = "false" THEN NoMatch ELSE Str(l),
   rc |-> 0]

\* a resolver that returned a falsy value is asked a second time
LeafOptions_AskedAgain(l) ==
  CASE l = "true" -> [r |-> Opts(EmptyOpts), rc |-> 0]
    [] l = "false" -> [r |-> NoMatch, rc |-> 0]
    [] l = "fnTrue" -> [r |-> True, rc |-> 1]
    [] l = "fnRandom" -> [r |-> Opts([algorithm |-> "Random"]), rc |-> 1]
    [] l = "fnFalsy" -> [r |-> NoMatch, rc |-> 2]
    [] l = "fnThrow" -> [r |-> Thrown, rc |-> 1]
    [] l = "fnAccount1" -> [r |-> Opts([keyAltName |-> "everything1"]), rc |-> 1]
    [] l = "fnAccount2" -> [r |-> Opts([keyAltName |-> "everything2"]), rc |-> 1]
    [] OTHER -> [r |-> Str(l), rc |-> 0]

\* What a leaf of the schema yields in encryptionOptions: a resolver function
\* is invoked and what it returns is returned, true becomes {}, anything else
\* (false, or a string such as an algorithm name) is returned as it is.  r is
\* the value (Thrown when the resolver throws), rc the number of resolver
\* calls.
LeafOptions(l) ==
  CASE l = "true" -> [r |-> Opts(EmptyOpts), rc |-> 0]
    [] l = "false" -> [r |-> NoMatch, rc |-> 0]
    [] l = "fnTrue" -> [r |-> True, rc |-> 1]
    [] l = "fnRandom" -> [r |-> Opts([algorithm |-> "Random"]), rc |-> 1]
    [] l = "fnFalsy" -> [r |-> NoMatch, rc |-> 1]
    [] l = "fnThrow" -> [r |-> Thrown, rc |-> 1]
    \* () => config, config the options of an account
    [] l = "fnAccount1" -> [r |-> Opts([keyAltName |-> "everything1"]), rc |-> 1]
    [] l = "fnAccount2" -> [r |-> Opts([keyAltName |-> "everything2"]), rc |-> 1]
    [] OTHER -> [r |-> Str(l), rc |-> 0]

\* The option names Object.assign(mergedOptions, entryEncryptionOptions)
\* takes from the entry's options: none from true or from a string
Overrides(r) == IF r.t = "opts" THEN r.o ELSE EmptyOpts

\* EncryptionSchema.encryptionOptions(str, ...args)
encryptionOptions(m, str) ==
  LET \* !ret && !["*", "$"].includes(str); a get that threw assigns nothing
      Retry(ret) == ~Truthy(ret) /\ ret # Thrown /\ str \notin {<<"*">>, <<"$">>}
      Resolve(ret) ==
        IF ret = Thrown THEN [r |-> Thrown, rc |-> 0]
        ELSE IF ~Truthy(ret) \/ ret.t = "schema" THEN [r |-> NoMatch, rc |-> 0]
        ELSE LeafOptions(ret.l)
      OrArray(ret) == Resolve(IF Retry(ret) THEN get(m, <<"$">>) ELSE ret)
      OrWildcard(ret) == OrArray(IF Retry(ret) THEN get(m, <<"*">>) ELSE ret)
  IN OrWildcard(get(m, str))

-----------------------------------------------------------------------------
(* flatten and the EncryptionSchema constructor.  A schema configuration   *)
(* is an Obj whose values are leaves (Leaf) or nested configurations.      *)

\* ret[key] = value on the ordered keys of ret
Put(keys, key, l) ==
  IF \E j \in 1..Len(keys) : keys[j][1] = key
    THEN [j \in 1..Len(keys) |-> IF keys[j][1] = key THEN <<key, l>> ELSE keys[j]]
    ELSE Append(keys, <<key, l>>)

\* flatten(obj, prefix, ret) over the entries e of obj from the i-th on;
\* ret.ok is FALSE once Object.keys(null) has thrown.
RECURSIVE flatten(_, _, _, _)
flatten(e, i, prefix, ret) ==
  IF ~ret.ok \/ i > Len(e) THEN ret
  ELSE LET value == e[i][2]
           full == prefix \o e[i][1]
       IN IF TypeofObject(value)
            THEN flatten(e, i + 1, prefix,
                   IF value.t = "obj" THEN flatten(value.e, 1, full, ret)
                   ELSE [ok |-> FALSE, keys |-> ret.keys])
            ELSE flatten(e, i + 1, prefix, [ok |-> TRUE, keys |-> Put(ret.keys, full, value.l)])

\* a.startsWith(`${b}.`)
StartsWithDot(a, b) == Len(a) > Len(b) /\ SubSeq(a, 1, Len(b)) = b

RECURSIVE addKeys_NewKeyLongerOnly(_, _)
addKeys_NewKeyLongerOnly(keys, i) ==
  IF i > Len(keys) THEN Node({<<keys[j][1], keys[j][2]>> : j \in 1..Len(keys)})
  ELSE IF \E j \in 1..(i - 1) : StartsWithDot(keys[i][1], keys[j][1])
    THEN Thrown
  ELSE addKeys_NewKeyLongerOnly(keys, i + 1)

\* The keys.forEach of the constructor: addedKeys is the keys before the i-th.
RECURSIVE addKeys(_, _)
addKeys(keys, i) ==
  IF i > Len(keys) THEN Node({<<keys[j][1], keys[j][2]>> : j \in 1..Len(keys)})
  ELSE IF \E j \in 1..(i - 1) :
            StartsWithDot(keys[j][1], keys[i][1]) \/ StartsWithDot(keys[i][1], keys[j][1])
    THEN Thrown
  ELSE addKeys(keys, i + 1)

\* new EncryptionSchema(schema): a schema node, or Thrown
EncryptionSchema(schema) ==
  LET Keys(flat) == IF flat.ok THEN addKeys(flat.keys, 1) ELSE Thrown
  IN Keys(flatten(schema.e, 1, <<>>, [ok |-> TRUE, keys |-> <<>>]))

-----------------------------------------------------------------------------
(* The Encryption Provider (mongodb-client-encryption), as the walker sees  *)
(* it.  encrypt rejects a whole object or array under the deterministic    *)
(* algorithm; decrypt inverts encrypt and rejects what is no ciphertext.   *)

\* options[k], with undefined read as FALSE for safe, as an object without
\* keys for kmsProviders and as "" otherwise
Option(options, k) ==
  IF k \in DOMAIN options THEN options[k]
  ELSE IF k = "safe" THEN FALSE
  ELSE IF k = "kmsProviders" THEN <<>>
  ELSE ""

ProviderEncrypt(value, options) ==
  IF Option(options, "algorithm") = "Deterministic" /\ value.t \in {"obj", "arr"}
    THEN Thrown
    ELSE Bin(value, Option(options, "algorithm"))

ProviderDecrypt(value) == IF value.t = "bin" THEN value.of ELSE Thrown

\* EncryptedCollection.encryptValue: ensureDataKey, then the provider's encrypt.
\* edk tells whether ensureDataKey returns ("ok") or throws ("fail").
encryptValue(edk, options, value) ==
  IF edk = "fail" THEN [v |-> Thrown, pv |-> 0]
  ELSE [v |-> ProviderEncrypt(value, options), pv |-> 1]

\* EncryptedCollection.decryptValue
decryptValue(value) == [v |-> ProviderDecrypt(value), pv |-> 1]

\* What one conversion function call returns: v the value, pv the number of
\* provider encrypt/decrypt calls it made.
encryptConversionFunction(edk, options, value) == encryptValue(edk, options, value)

\* safe is not read
decryptConversionFunction_IgnoresSafe(options, value) == decryptValue(value)

decryptConversionFunction_KeepsCiphertext(options, value) == [v |-> value, pv |-> 0]

decryptConversionFunction(options, value) ==
  IF value.t # "bin" /\ Option(options, "safe")
    THEN [v |-> value, pv |-> 0]
    ELSE decryptValue(value)

conversionFn(ctx, options, value) ==
  IF ctx.conv = "encrypt" THEN encryptConversionFunction(ctx.edk, options, value)
  ELSE decryptConversionFunction(options, value)

-----------------------------------------------------------------------------
(* newFunction, the structural walker.  A walk returns                      *)
(*   v   the value built (Thrown when an exception left the walk)          *)
(*   tf  the number of conversionFn calls made                             *)
(*   pv  the number of provider encrypt/decrypt calls made                 *)
(*   rc  the number of per-field resolver invocations made                 *)
(* ctx holds the arguments that do not change during a walk: conv, the     *)
(* conversion function; isSel, isSelectorOrMutator; opts, encryptionOptions;*)
(* edk, whether ensureDataKey succeeds for the walk's key alias.           *)

Ret(v) == [v |-> v, tf |-> 0, pv |-> 0, rc |-> 0]
Plus(x, y, v) == [v |-> v, tf |-> x.tf + y.tf, pv |-> x.pv + y.pv, rc |-> x.rc + y.rc]

HasOperatorKey(value) ==
  \E i \in 1..Len(value.e) : HasOp(supportedOperators, value.e[i][1])

RECURSIVE newFunction(_, _, _, _)
RECURSIVE walkEntry(_, _, _, _, _)
RECURSIVE walkObject(_, _, _, _, _, _)
RECURSIVE walkArray(_, _, _, _, _, _)
RECURSIVE mapArray(_, _, _, _, _, _)

\* value.map(v => newFunction({currentObj: v, ...})) of the logical operators
mapArray(a, i, currentSchema, ctx, actualKey, acc) ==
  IF acc.v = Thrown \/ i > Len(a) THEN acc
  ELSE LET Push(r) == Plus(acc, r, IF r.v = Thrown THEN Thrown ELSE Arr(Append(acc.v.a, r.v)))
       IN mapArray(a, i + 1, currentSchema, ctx, actualKey,
            Push(newFunction(a[i], currentSchema, ctx, actualKey)))

\* One [key, value] of the forEach of newFunction.  key is Index0 or IndexN
\* for the numeric index of an array element.
walkEntry(key, value, currentSchema, ctx, actualKey) ==
  IF HasOp(passthroughOperators, key) THEN Ret(value)
  ELSE IF TypeofObject(value) /\ HasOp(supportedOperators, key) THEN
    IF HasOp(arrayOperators, key) THEN
      (IF value.t = "arr"
         THEN mapArray(value.a, 1, currentSchema, ctx, actualKey, Ret(Arr(<<>>)))
         ELSE Ret(Thrown))
    ELSE IF HasOp(nestedOperators, key) THEN
      newFunction(value, currentSchema, ctx, actualKey)
    ELSE Ret(Dropped)
  ELSE IF value.t = "null" THEN Ret(Thrown)
  ELSE IF value.t = "obj" /\ HasOperatorKey(value) THEN
    newFunction(value, currentSchema, ctx, key)
  ELSE IF currentSchema.t # "schema" THEN Ret(Thrown)
  ELSE
    LET lookupKey == IF actualKey # NoKey /\ actualKey # Index0 THEN actualKey
                     ELSE IF IsIndex(key) THEN <<"$">> ELSE key
        \* ret[key] = ... for the entryEncryptionOptions e.r, found with e.rc
        \* resolver calls
        Converted(e, out) == [v |-> out.v, tf |-> 1, pv |-> out.pv, rc |-> e.rc]
        Nested(e, r) == [r EXCEPT !.rc = @ + e.rc]
        Assign(e) ==
          IF e.r = Thrown THEN [v |-> Thrown, tf |-> 0, pv |-> 0, rc |-> e.rc]
          ELSE IF e.r # NoMatch
            THEN Converted(e, conversionFn(ctx, Merge(ctx.opts, Overrides(e.r)), value))
          ELSE IF TypeofObject(value)
            THEN Nested(e, newFunction(value, get(currentSchema.m, lookupKey), ctx, NoKey))
          ELSE [v |-> value, tf |-> 0, pv |-> 0, rc |-> e.rc]
        \* (subSchema instanceof EncryptionSchema) && subSchema.encryptionOptions("$")
        After(direct, fallback) == [r |-> fallback.r, rc |-> direct.rc + fallback.rc]
        Fallback(direct, subSchema) ==
          After(direct, IF subSchema.t = "schema"
                          THEN encryptionOptions(subSchema.m, <<"$">>)
                          ELSE [r |-> NoMatch, rc |-> 0])
        \* !entryEncryptionOptions && isSelectorOrMutator && !Array.isArray(value)
        Designate(direct) ==
          Assign(IF direct.r = NoMatch /\ ctx.isSel /\ value.t # "arr"
                   THEN Fallback(direct, get(currentSchema.m, lookupKey))
                   ELSE direct)
    IN Designate(encryptionOptions(currentSchema.m, lookupKey))

\* The forEach over Object.entries(currentObj)
walkObject(e, i, currentSchema, ctx, actualKey, acc) ==
  IF acc.v = Thrown \/ i > Len(e) THEN acc
  ELSE LET SetKey(r) == Plus(acc, r, IF r.v = Thrown THEN Thrown
                                  ELSE IF r.v = Dropped THEN acc.v
                                  ELSE Obj(Append(acc.v.e, <<e[i][1], r.v>>)))
       IN walkObject(e, i + 1, currentSchema, ctx, actualKey,
            SetKey(walkEntry(e[i][1], e[i][2], currentSchema, ctx, actualKey)))

\* The forEach over currentObj.entries() of an array
walkArray(a, i, currentSchema, ctx, actualKey, acc) ==
  IF acc.v = Thrown \/ i > Len(a) THEN acc
  ELSE LET SetIndex(r) == Plus(acc, r, IF r.v \in {Thrown, Dropped} THEN Thrown
                                  ELSE Arr(Append(acc.v.a, r.v)))
       IN walkArray(a, i + 1, currentSchema, ctx, actualKey,
            SetIndex(walkEntry(IF i = 1 THEN Index0 ELSE IndexN, a[i], currentSchema, ctx, actualKey)))

newFunction(currentObj, currentSchema, ctx, actualKey) ==
  IF ~Truthy(currentSchema) THEN Ret(currentObj)
  ELSE CASE currentObj.t = "obj" ->
              walkObject(currentObj.e, 1, currentSchema, ctx, actualKey, Ret(Obj(<<>>)))
         [] currentObj.t = "arr" ->
              walkArray(currentObj.a, 1, currentSchema, ctx, actualKey, Ret(Arr(<<>>)))
         [] currentObj.t \in {"null", "undefined"} -> Ret(Thrown)
         [] OTHER -> Ret(Chars(currentObj))

-----------------------------------------------------------------------------
(* The collection's configuration: configureEncryption and                  *)
(* encryptionOptions.  The argument of configureEncryption is a record     *)
(*   isFn    whether it is a function                                      *)
(*   fn      the behaviour of that function: "const" returns the            *)
(*           configuration for every call, "nothing" returns undefined,    *)
(*           "maybe" returns undefined for the result phases (fetch,       *)
(*           forEach, map, result) and the configuration otherwise,        *)
(*           "throws" throws, "flex" returns the schema of the account     *)
(*           named by the document or the selector it is called with       *)
(*   o       the option keys it gives (or returns)                         *)
(*   schema  its schema key: a schema configuration, or NoMatch            *)

allowedOptions ==
  {"keyVaultNamespace", "kmsProviders", "masterKey", "keyAltName", "algorithm", "provider", "safe"}

Undefined == [t |-> "undefined"]

\* if (source[option]) target[option] = source[option], for the allowed options
CopyAllowed(target, source) ==
  LET given == {k \in allowedOptions \cap DOMAIN source :
                  IF k = "safe" THEN source[k] = TRUE
                  ELSE IF k = "kmsProviders" THEN TRUE
                  ELSE source[k] # ""}
  IN [k \in DOMAIN target \cup given |-> IF k \in given THEN source[k] ELSE target[k]]

NoEff == [kind |-> "undefined", o |-> EmptyOpts, schema |-> NoMatch, c |-> Undefined]
NoBase == [set |-> FALSE, o |-> EmptyOpts]

\* configureEncryption(optionsOrFn, extendOptions) on this.__encryptionOptions
\* (base) and this._encryptionOptions (eff): the two afterwards, and whether
\* the call threw.
configureEncryption(base, eff, c, extendOptions) ==
  LET fresh == ~base.set \/ ~extendOptions
      Installed(base2, eff1, built) ==
        IF c.isFn
          THEN [base |-> base2, threw |-> FALSE,
                eff |-> [kind |-> "function", o |-> EmptyOpts, schema |-> NoMatch, c |-> c]]
        ELSE IF built = Thrown
          THEN [base |-> base2, threw |-> TRUE, eff |-> eff1]
        ELSE [base |-> base2, threw |-> FALSE,
              eff |-> [kind |-> "object", o |-> CopyAllowed(base2.o, c.o),
                       schema |-> built, c |-> Undefined]]
      Defaults(base1, eff1) ==
        Installed(IF fresh /\ ~c.isFn
                    THEN [set |-> TRUE, o |-> CopyAllowed(base1.o, c.o)] ELSE base1,
                  eff1,
                  IF c.schema = NoMatch THEN NoMatch ELSE EncryptionSchema(c.schema))
  IN Defaults(IF fresh THEN [set |-> TRUE, o |-> [mongoClient |-> "db"]] ELSE base,
              IF fresh THEN NoEff ELSE eff)

ResultPhases == {"fetch", "forEach", "map", "result"}

\* configs: the fields of each account and the leaf that resolves to the
\* account's options
configs ==
  [account1 |-> [fields |-> <<"field1">>, leaf |-> Leaf("fnAccount1")],
   account2 |-> [fields |-> <<"field3">>, leaf |-> Leaf("fnAccount2")]]

\* ret[`flex.${field}.value`] = () => config;
\* ret[`flex.${field}.searchableValue.$`] = () => config, for the fields of config
FlexSchema(config) ==
  Obj([j \in 1..(2 * Len(config.fields)) |->
         IF j % 2 = 1
           THEN <<(<<"flex", config.fields[(j + 1) \div 2], "value">>), config.leaf>>
           ELSE <<(<<"flex", config.fields[j \div 2], "searchableValue", "$">>),
                  config.leaf>>])

\* const { accountId } = document || selector: the value of accountId in the
\* document, or in the selector when there is no document; Thrown when both
\* are undefined, Undefined when the object has no accountId
AccountId(args) ==
  LET subject == IF "document" \in DOMAIN args /\ args.document.t # "undefined"
                   THEN args.document ELSE args.selector
      Of(e) == IF \E i \in 1..Len(e) : e[i][1] = <<"accountId">>
                 THEN e[CHOOSE i \in 1..Len(e) : e[i][1] = <<"accountId">>][2]
                 ELSE Undefined
  IN IF subject.t \in {"undefined", "null"} THEN Thrown
     ELSE IF subject.t = "obj" THEN Of(subject.e)
     ELSE Undefined

\* the function of the Flex tests, with the schema of the first account for
\* every account that has a configuration
ReturnedConfig_FirstAccount(c, name, args) ==
  CASE c.fn = "const" -> c
    [] c.fn = "maybe" -> IF name \in ResultPhases THEN Undefined ELSE c
    [] c.fn = "throws" -> Thrown
    [] c.fn = "flex" ->
         (LET Config(accountId) ==
                IF accountId = Thrown THEN Thrown
                ELSE IF accountId.t = "str" /\ accountId.s \in DOMAIN configs
                  THEN [o |-> EmptyOpts, schema |-> FlexSchema(configs["account1"])]
                ELSE Undefined
          IN Config(AccountId(args)))
    [] OTHER -> Undefined

\* optionsOrFn(...args) of a configuration function
ReturnedConfig(c, name, args) ==
  CASE c.fn = "const" -> c
    [] c.fn = "maybe" -> IF name \in ResultPhases THEN Undefined ELSE c
    [] c.fn = "throws" -> Thrown
    \* the function of the Flex tests: config = configs[accountId];
    \* if (!config) return undefined; return { schema: ret }
    [] c.fn = "flex" ->
         (LET Config(accountId) ==
                IF accountId = Thrown THEN Thrown
                ELSE IF accountId.t = "str" /\ accountId.s \in DOMAIN configs
                  THEN [o |-> EmptyOpts, schema |-> FlexSchema(configs[accountId.s])]
                ELSE Undefined
          IN Config(AccountId(args)))
    [] OTHER -> Undefined

\* The collection's encryptionOptions(originalMethodName, originalMethodArgs):
\* r is undefined, Thrown or the options object (o its option keys, schema
\* its schema node or NoMatch); cf counts the calls of the configuration
\* function.
collectionEncryptionOptions(base, eff, name, args) ==
  CASE eff.kind = "undefined" -> [r |-> Undefined, cf |-> 0]
    [] eff.kind = "object" ->
         [r |-> [t |-> "options", o |-> eff.o, schema |-> eff.schema], cf |-> 0]
    [] OTHER ->
         LET Options(returnedConfig, built) ==
               IF built = Thrown THEN [r |-> Thrown, cf |-> 1]
               ELSE [r |-> [t |-> "options", o |-> CopyAllowed(base.o, returnedConfig.o),
                            schema |-> built],
                     cf |-> 1]
             Config(returnedConfig) ==
               Options(returnedConfig,
                       IF returnedConfig.schema = NoMatch THEN NoMatch
                       ELSE EncryptionSchema(returnedConfig.schema))
             Returned(ret) ==
               IF ret = Thrown THEN [r |-> Thrown, cf |-> 1]
               ELSE Config(IF ret = Undefined
                             THEN [o |-> EmptyOpts, schema |-> NoMatch] ELSE ret)
         IN Returned(ReturnedConfig(eff.c, name, args))

\* encryptionOptions?.schema
HasSchema(eo) == eo.t = "options" /\ eo.schema # NoMatch

-----------------------------------------------------------------------------
(* The provider caches.  A cache state K is a record                        *)
(*   clients   encryptionClientsByMongoClient: the <<key, instance>> of    *)
(*             the clients held, key the connection and the hash the       *)
(*             client is filed under, instance the number of the           *)
(*             ClientEncryption object                                     *)
(*   dataKeys  dataKeysByEncryptionClient: the <<client, alias>> cached,   *)
(*             the client named by its key (reset() clears both maps, so   *)
(*             that a key names one instance as long as entries exist)     *)
(*   vault     the key vault: for each alias the number of key records     *)
(*   made      the number of ClientEncryption objects constructed          *)
(*   reads     the number of key-vault reads issued                        *)
(*   creates   for each alias the number of createDataKey calls issued     *)
(* env is what the external calls of one operation do: "ok", "readFail"    *)
(* (the key-vault read fails) or "createFail" (createDataKey fails).       *)
(* kmsProviders is an object: the sequence of its keys (provider names) in *)
(* the order they were written, each provider with its own credentials.    *)

Aliases == {"everything", "tenant"}

\* the provider names in sorted order
ProviderNames == <<"aws", "local">>

\* the keys of an object in the order a canonical stringify writes them
Canonical(keys) ==
  SelectSeq(ProviderNames, LAMBDA n : \E i \in 1..Len(keys) : keys[i] = n)

ClientHash_AsWritten(options) ==
  <<Option(options, "kmsProviders"), Option(options, "keyVaultNamespace")>>

\* EJSON.stringify({kmsProviders, keyVaultNamespace}, {canonical: true})
ClientHash(options) ==
  <<Canonical(Option(options, "kmsProviders")), Option(options, "keyVaultNamespace")>>

\* where a client is filed: encryptionClientsByMongoClient.get(mongoClient),
\* then the hash
ClientKey(options) == <<Option(options, "mongoClient"), ClientHash(options)>>

Alias(options) == Option(options, "keyAltName")

\* mongoClientEncryptionClients.has(hash)
HasClient(K, options) == \E c \in K.clients : c[1] = ClientKey(options)

\* EncryptedCollection.ensureEncryptionClient: the caches afterwards
ensureEncryptionClient(K, options) ==
  IF HasClient(K, options) THEN K
  ELSE [K EXCEPT !.clients = @ \cup {<<ClientKey(options), K.made + 1>>}, !.made = @ + 1]

\* mongoClientEncryptionClients.get(hash): the instance returned
ClientOf(K, options) == (CHOOSE c \in K.clients : c[1] = ClientKey(options))[2]

VaultAliases(K) == {a \in Aliases : K.vault[a] > 0}

\* Whether ensureDataKey(client, {keyAltName: alias}) throws
ensureDataKeyFails(K, client, alias, env) ==
  /\ <<client, alias>> \notin K.dataKeys
  /\ \/ env = "readFail"
     \/ env = "createFail" /\ alias \notin VaultAliases(K)

ensureDataKey_IgnoresVault(K, client, alias, env) ==
  IF <<client, alias>> \in K.dataKeys THEN K
  ELSE [K EXCEPT !.reads = @ + 1, !.creates[alias] = @ + 1, !.vault[alias] = @ + 1,
                 !.dataKeys = @ \cup {<<client, alias>>}]

ensureDataKey_CachesFailure(K, client, alias, env) ==
  IF <<client, alias>> \in K.dataKeys THEN K
  ELSE IF env = "readFail"
    THEN [K EXCEPT !.reads = @ + 1, !.dataKeys = @ \cup {<<client, alias>>}]
  ELSE IF alias \in {a \in Aliases : K.vault[a] > 0}
    THEN [K EXCEPT !.reads = @ + 1,
                   !.dataKeys = @ \cup {<<client, a>> : a \in {x \in Aliases : K.vault[x] > 0}}]
  ELSE [K EXCEPT !.reads = @ + 1, !.creates[alias] = @ + 1,
                 !.vault[alias] = @ + (IF env = "createFail" THEN 0 ELSE 1),
                 !.dataKeys = @ \cup {<<client, a>> : a \in {x \in Aliases : K.vault[x] > 0} \cup {alias}}]

\* EncryptedCollection.ensureDataKey, run without interruption
ensureDataKey(K, client, alias, env) ==
  IF <<client, alias>> \in K.dataKeys THEN K
  ELSE IF env = "readFail" THEN [K EXCEPT !.reads = @ + 1]
  ELSE
    LET loaded == [K EXCEPT !.reads = @ + 1,
                            !.dataKeys = @ \cup {<<client, a>> : a \in VaultAliases(K)}]
    IN IF alias \in VaultAliases(K) THEN loaded
       ELSE IF env = "createFail" THEN [loaded EXCEPT !.creates[alias] = @ + 1]
       ELSE [loaded EXCEPT !.creates[alias] = @ + 1,
                           !.vault[alias] = @ + 1,
                           !.dataKeys = @ \cup {<<client, alias>>}]

\* The caches after a walk that made etf encrypt and dtf decrypt conversions
\* under the options o: every conversion is preceded by ensureEncryptionClient,
\* every encrypt conversion starts with ensureDataKey.
AfterWalk(K, o, etf, dtf, env) ==
  IF etf + dtf = 0 THEN K
  ELSE LET K1 == ensureEncryptionClient(K, o)
       IN IF etf = 0 THEN K1 ELSE ensureDataKey(K1, ClientKey(o), Alias(o), env)

Edk(K, o, env) ==
  IF ensureDataKeyFails(K, ClientKey(o), Alias(o), env) THEN "fail" ELSE "ok"

-----------------------------------------------------------------------------
(* _encryptSelector, _encryptInsert, _encryptMutator                        *)

Ctx(conv, isSel, eo, edk) == [conv |-> conv, isSel |-> isSel, opts |-> eo.o, edk |-> edk]

encryptSelector(selector, eo, edk) ==
  IF ~HasSchema(eo) THEN Ret(selector)
  ELSE newFunction(selector, eo.schema, Ctx("encrypt", TRUE, eo, edk), NoKey)

encryptInsert_AsSelector(doc, eo, edk) ==
  newFunction(doc, eo.schema, Ctx("encrypt", TRUE, eo, edk), NoKey)

encryptInsert(doc, eo, edk) ==
  newFunction(doc, eo.schema, Ctx("encrypt", FALSE, eo, edk), NoKey)

arrayMutators_NoPull == {"$push", "$addToSet"}

\* ["$push", "$addToSet", "$pull"]
arrayMutators == {"$push", "$addToSet", "$pull"}

RECURSIVE mutatorKeys(_, _, _, _, _)
mutatorKeys(e, i, eo, edk, acc) ==
  IF acc.v = Thrown \/ i > Len(e) THEN acc
  ELSE LET key == e[i][1]
           SetOperator(r) ==
             Plus(acc, r, IF r.v = Thrown THEN Thrown ELSE Obj(Append(acc.v.e, <<key, r.v>>)))
       IN mutatorKeys(e, i + 1, eo, edk,
            SetOperator(IF key = <<"$set">> \/ HasOp(arrayMutators, key)
                          THEN newFunction(e[i][2], eo.schema, Ctx("encrypt", TRUE, eo, edk), NoKey)
                          ELSE Ret(e[i][2])))

encryptMutator(mutator, eo, edk) == mutatorKeys(mutator.e, 1, eo, edk, Ret(Obj(<<>>)))

decryptDocument(doc, eo) ==
  newFunction(doc, eo.schema, Ctx("decrypt", FALSE, eo, "ok"), NoKey)

-----------------------------------------------------------------------------
(* The patched operations.  Each returns what the call did:                 *)
(*   threw   whether an exception reached the caller                       *)
(*   called  whether the host storage operation was called                 *)
(*   hsel, hdoc, hmut  the selector, document and mutator the host got     *)
(*   etf, dtf  the encrypt and decrypt conversion calls made               *)
(*   pv, rc, cf  the provider encrypt/decrypt calls, the per-field         *)
(*           resolver calls and the configuration function calls made      *)
(*   K       the provider caches afterwards                                *)
(*   fa, ra  the calls of the configuration function and of the per-field  *)
(*           resolvers, in order: the originalMethodName and the           *)
(*           originalMethodArgs each was given.  newFunction hands both    *)
(*           unchanged to every nested walk, so that every resolver call   *)
(*           of one walk is given the name and the arguments of that walk. *)

\* JavaScript truthiness of a selector argument
TruthyValue(v) == v.t \notin {"undefined", "null"}

Done(threw, called, hsel, hdoc, hmut, etf, dtf, pv, rc, cf, K) ==
  [threw |-> threw, called |-> called, hsel |-> hsel, hdoc |-> hdoc, hmut |-> hmut,
   etf |-> etf, dtf |-> dtf, pv |-> pv, rc |-> rc, cf |-> cf, K |-> K,
   fa |-> <<>>, ra |-> <<>>]

\* fn(originalMethodName, originalMethodArgs)
Call(originalMethodName, originalMethodArgs) ==
  [name |-> originalMethodName, args |-> originalMethodArgs]

\* n calls in a row, each given the same name and arguments
Times(n, call) == [j \in 1..n |-> call]

\* what the call d did, with the calls it made of the configuration function
\* and of the resolvers
Calling(d, fa, ra) == [d EXCEPT !.fa = fa, !.ra = ra]

insert_StoresOnFailure(base, eff, K, env, doc, options) ==
  LET argsForFn == [document |-> doc, options |-> options]
      Walked(eo, toInsert) ==
        IF toInsert.v = Thrown
          THEN Done(FALSE, TRUE, Undefined, doc, Undefined, 0, 0, 0, 0, eo.cf, K)
          ELSE Done(FALSE, TRUE, Undefined, toInsert.v, Undefined,
                    toInsert.tf, 0, toInsert.pv, toInsert.rc, eo.cf,
                    AfterWalk(K, eo.r.o, toInsert.tf, 0, env))
      Resolved(eo) ==
        IF eo.r = Thrown \/ ~HasSchema(eo.r)
          THEN Done(FALSE, TRUE, Undefined, doc, Undefined, 0, 0, 0, 0, eo.cf, K)
          ELSE Walked(eo, encryptInsert(doc, eo.r, Edk(K, eo.r.o, env)))
  IN Resolved(collectionEncryptionOptions(base, eff, "insert", argsForFn))

\* _insert(doc, ...args)
insert(base, eff, K, env, doc, options) ==
  LET argsForFn == [document |-> doc, options |-> options]
      Walked(eo, toInsert) ==
        Done(toInsert.v = Thrown, toInsert.v # Thrown, Undefined,
             IF toInsert.v = Thrown THEN Undefined ELSE toInsert.v, Undefined,
             toInsert.tf, 0, toInsert.pv, toInsert.rc, eo.cf,
             AfterWalk(K, eo.r.o, toInsert.tf, 0, env))
      Resolved(eo) ==
        IF eo.r = Thrown
          THEN Done(TRUE, FALSE, Undefined, Undefined, Undefined, 0, 0, 0, 0, eo.cf, K)
        ELSE IF ~HasSchema(eo.r)
          THEN Done(FALSE, TRUE, Undefined, doc, Undefined, 0, 0, 0, 0, eo.cf, K)
        ELSE Walked(eo, encryptInsert(doc, eo.r, Edk(K, eo.r.o, env)))
      \* this.encryptionOptions("insert", argsForFn); originalMethodName: "insert"
      Called(d) == Calling(d, Times(d.cf, Call("insert", argsForFn)),
                           Times(d.rc, Call("insert", argsForFn)))
  IN Called(Resolved(collectionEncryptionOptions(base, eff, "insert", argsForFn)))

\* _update(selector, mutator, ...args)
update(base, eff, K, env, selector, mutator, options) ==
  LET argsForFn == [selector |-> selector, mutator |-> mutator, options |-> options]
      Both(eo, actualSelector, actualMutator, both) ==
        IF both.v = Thrown
          THEN Done(TRUE, FALSE, Undefined, Undefined, Undefined,
                    both.tf, 0, both.pv, both.rc, eo.cf, AfterWalk(K, eo.r.o, both.tf, 0, env))
          ELSE Done(FALSE, TRUE, actualSelector.v, Undefined, actualMutator.v,
                    both.tf, 0, both.pv, both.rc, eo.cf, AfterWalk(K, eo.r.o, both.tf, 0, env))
      Mutator(eo, actualSelector, actualMutator) ==
        Both(eo, actualSelector, actualMutator,
             Plus(actualSelector, actualMutator, actualMutator.v))
      Selector(eo, actualSelector) ==
        Mutator(eo, actualSelector,
                IF actualSelector.v = Thrown THEN Ret(Thrown)
                ELSE encryptMutator(mutator, eo.r, Edk(K, eo.r.o, env)))
      Resolved(eo) ==
        IF eo.r = Thrown
          THEN Done(TRUE, FALSE, Undefined, Undefined, Undefined, 0, 0, 0, 0, eo.cf, K)
        ELSE IF ~HasSchema(eo.r)
          THEN Done(FALSE, TRUE, selector, Undefined, mutator, 0, 0, 0, 0, eo.cf, K)
        ELSE Selector(eo, encryptSelector(selector, eo.r, Edk(K, eo.r.o, env)))
      \* this.encryptionOptions("update", argsForFn); _encryptSelector(selector,
      \* "update", argsForFn, ...); _encryptMutator: originalMethodName: "update"
      Called(d) == Calling(d, Times(d.cf, Call("update", argsForFn)),
                           Times(d.rc, Call("update", argsForFn)))
  IN Called(Resolved(collectionEncryptionOptions(base, eff, "update", argsForFn)))

\* _remove(...args); the configuration is asked for under the name "findOne"
remove(base, eff, K, env, selector, options) ==
  LET argsForFn == [selector |-> selector, options |-> options]
      Walked(eo, walked) ==
        IF walked.v = Thrown
          THEN Done(TRUE, FALSE, Undefined, Undefined, Undefined,
                    walked.tf, 0, walked.pv, walked.rc, eo.cf,
                    AfterWalk(K, eo.r.o, walked.tf, 0, env))
          ELSE Done(FALSE, TRUE, walked.v, Undefined, Undefined,
                    walked.tf, 0, walked.pv, walked.rc, eo.cf,
                    IF HasSchema(eo.r) THEN AfterWalk(K, eo.r.o, walked.tf, 0, env) ELSE K)
      Resolved(eo) ==
        IF eo.r = Thrown
          THEN Done(TRUE, FALSE, Undefined, Undefined, Undefined, 0, 0, 0, 0, eo.cf, K)
          ELSE Walked(eo, IF TruthyValue(selector) /\ HasSchema(eo.r)
                            THEN encryptSelector(selector, eo.r, Edk(K, eo.r.o, env))
                            ELSE Ret(selector))
      \* this.encryptionOptions("findOne", argsForFn);
      \* _encryptSelector(args[0], "remove", argsForFn, ...)
      Called(d) == Calling(d, Times(d.cf, Call("findOne", argsForFn)),
                           Times(d.rc, Call("remove", argsForFn)))
  IN Called(Resolved(collectionEncryptionOptions(base, eff, "findOne", argsForFn)))

\* if (typeof args[0] === "string") args[0] = { _id: args[0] }
LazyString(selector) ==
  IF selector.t = "str" THEN Obj(<< <<(<<"_id">>), selector>> >>) ELSE selector

\* _find(...args) up to the host's find and wrapCursor.  The cursor it
\* returns is the host's; wrapped tells whether wrapCursor replaced its
\* fetch, forEach and map, root and args are what wrapCursor closed over.
find(base, eff, K, env, selector, options) ==
  LET args0 == LazyString(selector)
      argsForFn == [selector |-> args0, options |-> options]
      Found(eo, walked, K1) ==
        IF walked.v = Thrown
          THEN [d |-> Done(TRUE, FALSE, Undefined, Undefined, Undefined,
                           walked.tf, 0, walked.pv, walked.rc, eo.cf, K1),
                wrapped |-> FALSE, root |-> Undefined, args |-> argsForFn]
          ELSE [d |-> Done(FALSE, TRUE, walked.v, Undefined, Undefined,
                           walked.tf, 0, walked.pv, walked.rc, eo.cf, K1),
                wrapped |-> eo.r # Undefined, root |-> eo.r, args |-> argsForFn]
      Walked(eo, walked) ==
        Found(eo, walked,
              IF eo.r # Undefined THEN AfterWalk(K, eo.r.o, walked.tf, 0, env) ELSE K)
      Resolved(eo) ==
        IF eo.r = Thrown
          THEN [d |-> Done(TRUE, FALSE, Undefined, Undefined, Undefined, 0, 0, 0, 0, eo.cf, K),
                wrapped |-> FALSE, root |-> Undefined, args |-> argsForFn]
          ELSE Walked(eo, IF TruthyValue(args0) /\ eo.r # Undefined
                            THEN encryptSelector(args0, eo.r, Edk(K, eo.r.o, env))
                            ELSE Ret(args0))
      \* this.encryptionOptions("find", argsForFn);
      \* _encryptSelector(args[0], "find", argsForFn, ...)
      Called(f) ==
        [f EXCEPT !.d = Calling(f.d, Times(f.d.cf, Call("find", argsForFn)),
                                Times(f.d.rc, Call("find", argsForFn)))]
  IN Called(Resolved(collectionEncryptionOptions(base, eff, "find", argsForFn)))

\* _findOne(...args); found is what the host's findOne returns when called
\* (Undefined when no document matches).  result is what the caller gets.
findOne(base, eff, K, env, selector, options, found) ==
  LET args0 == LazyString(selector)
      argsForFn == [selector |-> args0, options |-> options]
      \* { document: result, selector: args[0], options: args[1] }, args[0]
      \* being by now what _encryptSelector returned
      resultArgs(walked) == [document |-> found, selector |-> walked.v, options |-> options]
      \* this.encryptionOptions("findOne", argsForFn), then
      \* this.encryptionOptions("result", ...)
      Asking(eo, walked, eo2) ==
        Times(eo.cf, Call("findOne", argsForFn))
          \o Times(eo2.cf, Call("result", resultArgs(walked)))
      Decrypted(eo, walked, K1, eo2, decrypted) ==
        [d |-> Calling(Done(decrypted.v = Thrown, TRUE, walked.v, Undefined, Undefined,
                            walked.tf, decrypted.tf, walked.pv + decrypted.pv,
                            walked.rc + decrypted.rc, eo.cf + eo2.cf,
                            AfterWalk(K1, eo2.r.o, 0, decrypted.tf, env)),
                       Asking(eo, walked, eo2),
                       \* _encryptSelector(args[0], "findOne", argsForFn, ...), then
                       \* the walk of the result: originalMethodName: "findOne"
                       Times(walked.rc, Call("findOne", argsForFn))
                         \o Times(decrypted.rc, Call("findOne", resultArgs(walked)))),
         result |-> IF decrypted.v = Thrown THEN Undefined ELSE decrypted.v]
      Result(eo, walked, K1, eo2) ==
        IF eo2.r = Thrown
          THEN [d |-> Calling(Done(TRUE, TRUE, walked.v, Undefined, Undefined,
                                   walked.tf, 0, walked.pv, walked.rc, eo.cf + eo2.cf, K1),
                              Asking(eo, walked, eo2),
                              Times(walked.rc, Call("findOne", argsForFn))),
                result |-> Undefined]
        ELSE IF ~HasSchema(eo2.r)
          THEN [d |-> Calling(Done(FALSE, TRUE, walked.v, Undefined, Undefined,
                                   walked.tf, 0, walked.pv, walked.rc, eo.cf + eo2.cf, K1),
                              Asking(eo, walked, eo2),
                              Times(walked.rc, Call("findOne", argsForFn))),
                result |-> found]
        ELSE Decrypted(eo, walked, K1, eo2, decryptDocument(found, eo2.r))
      Found(eo, walked, K1) ==
        IF walked.v = Thrown
          THEN [d |-> Calling(Done(TRUE, FALSE, Undefined, Undefined, Undefined,
                                   walked.tf, 0, walked.pv, walked.rc, eo.cf, K1),
                              Times(eo.cf, Call("findOne", argsForFn)),
                              Times(walked.rc, Call("findOne", argsForFn))),
                result |-> Undefined]
        ELSE IF found = Undefined \/ eo.r = Undefined
          THEN [d |-> Calling(Done(FALSE, TRUE, walked.v, Undefined, Undefined,
                                   walked.tf, 0, walked.pv, walked.rc, eo.cf, K1),
                              Times(eo.cf, Call("findOne", argsForFn)),
                              Times(walked.rc, Call("findOne", argsForFn))),
                result |-> found]
        ELSE Result(eo, walked, K1,
                    collectionEncryptionOptions(base, eff, "result", resultArgs(walked)))
      Walked(eo, walked) ==
        Found(eo, walked,
              IF eo.r # Undefined THEN AfterWalk(K, eo.r.o, walked.tf, 0, env) ELSE K)
      Resolved(eo) ==
        IF eo.r = Thrown
          THEN [d |-> Calling(Done(TRUE, FALSE, Undefined, Undefined, Undefined,
                                   0, 0, 0, 0, eo.cf, K),
                              Times(eo.cf, Call("findOne", argsForFn)), <<>>),
                result |-> Undefined]
          ELSE Walked(eo, IF TruthyValue(args0) /\ eo.r # Undefined
                            THEN encryptSelector(args0, eo.r, Edk(K, eo.r.o, env))
                            ELSE Ret(args0))
  IN Resolved(collectionEncryptionOptions(base, eff, "findOne", argsForFn))

-----------------------------------------------------------------------------
(* wrapCursor.  A cursor is [wrapped, root, args]: whether wrapCursor       *)
(* replaced its methods, and the rootEncryptionOptions and                 *)
(* originalMethodArgs it closed over.  docs is what the host's cursor      *)
(* yields; fn, the caller's callback, turns a document v into FnOf(v).     *)
(* An iteration returns out, the list returned (fetch, map) or the list of *)
(* the documents fn was called with (forEach), and calls, the number of    *)
(* calls of fn; fa lists the calls of the configuration function made: the *)
(* name and the arguments each was given.                                  *)

FnOf(v) == [t |-> "fn", of |-> v]

quickEncrypt_Never(args) == FALSE

\* originalMethodArgs?.options?.fastAutoEncryption
quickEncrypt(args) ==
  /\ args.options.t = "obj"
  /\ \E i \in 1..Len(args.options.e) :
       args.options.e[i] = <<(<<"fastAutoEncryption">>), Str("true")>>

Iter(threw, out, calls, dtf, pv, rc, cf, K, fa) ==
  [threw |-> threw, out |-> out, calls |-> calls, dtf |-> dtf, pv |-> pv,
   rc |-> rc, cf |-> cf, K |-> K, fa |-> fa, ra |-> <<>>]

\* The body that cursor.fetch, cursor.forEach and cursor.map run per document
RECURSIVE iterate(_, _, _, _, _, _, _)
iterate(name, base, eff, cursor, docs, i, acc) ==
  IF acc.threw \/ i > Len(docs) THEN acc
  ELSE
    LET doc == docs[i]
        \* { document: doc, ...originalMethodArgs }
        args == [document |-> doc, selector |-> cursor.args.selector,
                 options |-> cursor.args.options]
        \* the calls of the configuration function made to get eo
        Given(eo) == acc.fa \o [j \in 1..eo.cf |-> [name |-> name, args |-> args]]
        \* the resolver calls so far and the n of the walk of doc:
        \* originalMethodArgs: { document: doc, ...originalMethodArgs }
        Resolving(it, n) == [it EXCEPT !.ra = acc.ra \o Times(n, Call(name, args))]
        Delivered(eo, decrypted) == Resolving(
          Iter(decrypted.v = Thrown,
               IF decrypted.v = Thrown THEN acc.out
               ELSE IF name = "map" THEN Append(acc.out, FnOf(decrypted.v))
               ELSE Append(acc.out, decrypted.v),
               IF decrypted.v = Thrown \/ name = "fetch" THEN acc.calls ELSE acc.calls + 1,
               acc.dtf + decrypted.tf, acc.pv + decrypted.pv, acc.rc + decrypted.rc,
               acc.cf + eo.cf,
               AfterWalk(acc.K, eo.r.o, 0, decrypted.tf, "ok"),
               Given(eo)), decrypted.rc)
        Resolved(eo) ==
          IF eo.r = Thrown
            THEN Resolving(Iter(TRUE, acc.out, acc.calls, acc.dtf, acc.pv, acc.rc,
                                acc.cf + eo.cf, acc.K, Given(eo)), 0)
          ELSE IF ~HasSchema(eo.r)
            THEN Resolving(Iter(FALSE,
                                IF name = "forEach" THEN acc.out ELSE Append(acc.out, doc),
                                acc.calls, acc.dtf, acc.pv, acc.rc, acc.cf + eo.cf, acc.K,
                                Given(eo)), 0)
          ELSE Delivered(eo, decryptDocument(doc, eo.r))
    IN iterate(name, base, eff, cursor, docs, i + 1,
         Resolved(IF quickEncrypt(cursor.args) THEN [r |-> cursor.root, cf |-> 0]
                  ELSE collectionEncryptionOptions(base, eff, name, args)))

\* The host's own fetch, forEach and map
hostIterate(name, docs, K) ==
  Iter(FALSE,
       IF name = "map" THEN [i \in 1..Len(docs) |-> FnOf(docs[i])] ELSE docs,
       IF name = "fetch" THEN 0 ELSE Len(docs), 0, 0, 0, 0, K, <<>>)

\* cursor.fetch(), cursor.forEach(fn), cursor.map(fn)
cursorIterate(name, base, eff, cursor, docs, K) ==
  IF cursor.wrapped
    THEN iterate(name, base, eff, cursor, docs, 1, Iter(FALSE, <<>>, 0, 0, 0, 0, 0, K, <<>>))
    ELSE hostIterate(name, docs, K)

-----------------------------------------------------------------------------
(* Bounds and the values the operations are called with                     *)

\* the most documents the host collection holds
MaxDocs == 1
\* the most calls of EncryptedCollection.reset()
MaxResets == 1

Key(s) == <<s>>
Field(k, v) == <<Key(k), v>>

encOptions ==
  [keyVaultNamespace |-> "meteor.keyVault", kmsProviders |-> <<"local">>, masterKey |-> "masterKey",
   provider |-> "local", keyAltName |-> "everything", algorithm |-> "Deterministic"]

randomOptions == [encOptions EXCEPT !.algorithm = "Random"]

Static(o, schema) == [isFn |-> FALSE, fn |-> "", o |-> o, schema |-> schema]
Function(fn, o, schema) == [isFn |-> TRUE, fn |-> fn, o |-> o, schema |-> schema]

SchString == Obj(<<Field("string", Leaf("true"))>>)
SchObjectFlat == Obj(<< <<(<<"object", "inner">>), Leaf("true")>> >>)
SchObjectNested == Obj(<<Field("object", Obj(<<Field("inner", Leaf("true"))>>))>>)
SchArray == Obj(<< <<(<<"array", "$">>), Leaf("true")>> >>)
SchWildcard == Obj(<< <<(<<"object", "*">>), Leaf("true")>> >>)
SchArrayObject == Obj(<< <<(<<"array", "$", "inner">>), Leaf("true")>> >>)
SchConflict == Obj(<<Field("object", Leaf("true")), <<(<<"object", "inner">>), Leaf("true")>> >>)
SchResolverThrows == Obj(<<Field("string", Leaf("fnThrow"))>>)

\* a whole-value leaf, a nested-object leaf, an array-element leaf and an
\* object-in-array leaf
SchLeaves ==
  Obj(<<Field("string", Leaf("true")), <<(<<"object", "inner">>), Leaf("true")>>,
        <<(<<"array", "$">>), Leaf("true")>>, <<(<<"list", "$", "inner">>), Leaf("true")>> >>)

ShapeSchemas == {SchLeaves, SchWildcard}

DocAll ==
  Obj(<<Field("_id", Str("1")), Field("string", Str("hello")),
        Field("object", Obj(<<Field("inner", Str("hello")), Field("inner2", Str("goodbye"))>>)),
        Field("array", Arr(<<Str("1"), Str("2")>>)),
        Field("list", Arr(<<Obj(<<Field("inner", Str("hello")), Field("plain", Str("x"))>>)>>))>>)
DocNull == Obj(<<Field("_id", Str("3")), Field("string", Str("hello")), Field("other", Null)>>)
DocWhole == Obj(<<Field("_id", Str("4")), Field("string", Obj(<<Field("a", Str("1"))>>))>>)

NoOptions == Undefined
FastOptions == Obj(<<Field("fastAutoEncryption", Str("true"))>>)
SlowOptions == Obj(<<Field("fastAutoEncryption", Str("false"))>>)

SelId == Obj(<<Field("_id", Str("1"))>>)
SelString == Obj(<<Field("string", Str("hello"))>>)
SelIn == Obj(<<Field("string", Obj(<<Field("$in", Arr(<<Str("hello")>>))>>))>>)
SelNull == Obj(<<Field("string", Null)>>)
SelWhole == Obj(<<Field("string", Obj(<<Field("a", Str("1"))>>))>>)

MutSet == Obj(<<Field("$set", Obj(<<Field("string", Str("new"))>>))>>)
MutInc == Obj(<<Field("$inc", Obj(<<Field("string", Str("1"))>>))>>)
MutSetNull == Obj(<<Field("$set", Obj(<<Field("string", Null)>>))>>)

-----------------------------------------------------------------------------
(* The state.                                                               *)
(*   base, eff  the collection's __encryptionOptions and _encryptionOptions *)
(*   store      the host collection: a list of entries [doc, plain, cur],  *)
(*              doc the stored document; plain (the document the caller    *)
(*              wrote) and cur (whether every write of it was made under   *)
(*              the configuration now in force) are history the program    *)
(*              does not keep                                              *)
(*   caches     the provider caches K                                      *)
(*   resets     the calls of reset() so far                                *)
(*   last       the call the caller is in: what it was given, handed to    *)
(*              the host, and returned; Idle between calls                 *)
(*   probe      the last application of a pure function                    *)
(*   fibers     the fibers running ensureDataKey concurrently              *)

VARIABLES base, eff, store, caches, resets, last, probe, fibers

vars == <<base, eff, store, caches, resets, last, probe, fibers>>

\* the most key-vault reads that may fail
MaxReads == 1

InitK ==
  [clients |-> {}, dataKeys |-> {}, vault |-> [a \in Aliases |-> 0], made |-> 0,
   reads |-> 0, creates |-> [a \in Aliases |-> 0]]

Idle == [op |-> "none"]

Init ==
  /\ base = NoBase
  /\ eff = NoEff
  /\ store = <<>>
  /\ caches = InitK
  /\ resets = 0
  /\ last = Idle
  /\ probe = Idle
  /\ fibers = <<>>

Envs == {"ok", "readFail", "createFail"}

EnvAllowed(env) == env = "ok" \/ caches.reads < MaxReads

\* the sub-list of s at the positions in S
RECURSIVE Pick(_, _, _)
Pick(s, S, i) ==
  IF i > Len(s) THEN <<>>
  ELSE IF i \in S THEN <<s[i]>> \o Pick(s, S, i + 1) ELSE Pick(s, S, i + 1)

Docs(entries) == [i \in 1..Len(entries) |-> entries[i].doc]

\* collection.configureEncryption(c, extendOptions)
Configure(c, extendOptions) ==
  LET Configured(r) ==
        /\ last = Idle
        /\ base' = r.base
        /\ eff' = r.eff
        /\ store' = [i \in 1..Len(store) |->
                       [store[i] EXCEPT !.cur = @ /\ r.base = base /\ r.eff = eff]]
        /\ last' = [op |-> "configure", c |-> c, threw |-> r.threw]
        /\ UNCHANGED <<caches, resets, probe, fibers>>
  IN Configured(configureEncryption(base, eff, c, extendOptions))

\* collection.insert(doc, options); the host appends what it is given
Insert(doc, options, env) ==
  LET Inserted(d) ==
        /\ last = Idle
        /\ Len(store) < MaxDocs
        /\ EnvAllowed(env)
        /\ caches' = d.K
        /\ store' = IF d.called
                      THEN Append(store, [doc |-> d.hdoc, plain |-> doc, cur |-> TRUE])
                      ELSE store
        /\ last' = [op |-> "insert", doc |-> doc, options |-> options, d |-> d,
                    env |-> env, pre |-> caches,
                    res |-> IF d.threw THEN Thrown ELSE Str("id")]
        /\ UNCHANGED <<base, eff, resets, probe, fibers>>
  IN Inserted(insert(base, eff, caches, env, doc, options))

\* The host's $set of one field on a stored document
SetField(e, key, v) ==
  IF \E i \in 1..Len(e) : e[i][1] = key
    THEN [i \in 1..Len(e) |-> IF e[i][1] = key THEN <<key, v>> ELSE e[i]]
    ELSE Append(e, <<key, v>>)

RECURSIVE SetFields(_, _, _)
SetFields(e, sets, i) ==
  IF i > Len(sets) THEN e ELSE SetFields(SetField(e, sets[i][1], sets[i][2]), sets, i + 1)

\* The host's update of one document: the fields under $set are written;
\* the host's other update operators are not applied in this model.
hostUpdate(doc, mutator) ==
  IF mutator.t = "obj" /\ \E i \in 1..Len(mutator.e) : mutator.e[i][1] = <<"$set">>
    THEN LET i == CHOOSE j \in 1..Len(mutator.e) : mutator.e[j][1] = <<"$set">>
         IN IF mutator.e[i][2].t = "obj"
              THEN Obj(SetFields(doc.e, mutator.e[i][2].e, 1)) ELSE doc
    ELSE doc

\* collection.update(selector, mutator, options); the host updates the
\* entries at S
Update(selector, mutator, options, env, S) ==
  LET Updated(d) ==
        /\ last = Idle
        /\ EnvAllowed(env)
        /\ caches' = d.K
        /\ store' = IF d.called
                      THEN [i \in 1..Len(store) |->
                              IF i \in S
                                THEN [doc |-> hostUpdate(store[i].doc, d.hmut),
                                      plain |-> hostUpdate(store[i].plain, mutator),
                                      cur |-> store[i].cur]
                                ELSE store[i]]
                      ELSE store
        /\ last' = [op |-> "update", selector |-> selector, mutator |-> mutator,
                    options |-> options, d |-> d, env |-> env, pre |-> caches,
                    res |-> IF d.threw THEN Thrown ELSE Str("matched")]
        /\ UNCHANGED <<base, eff, resets, probe, fibers>>
  IN Updated(update(base, eff, caches, env, selector, mutator, options))

\* collection.remove(selector, options); the host removes the entries at S
Remove(selector, options, env, S) ==
  LET Removed(d) ==
        /\ last = Idle
        /\ EnvAllowed(env)
        /\ caches' = d.K
        /\ store' = IF d.called THEN Pick(store, (1..Len(store)) \ S, 1) ELSE store
        /\ last' = [op |-> "remove", selector |-> selector, options |-> options, d |-> d,
                    env |-> env, pre |-> caches,
                    res |-> IF d.threw THEN Thrown ELSE Str("removed")]
        /\ UNCHANGED <<base, eff, resets, probe, fibers>>
  IN Removed(remove(base, eff, caches, env, selector, options))

\* collection.find(selector, options) followed by fetch(), forEach(fn) or
\* map(fn) on the cursor; the host's cursor yields the entries at S
FindThen(name, selector, options, env, S) ==
  LET src == Pick(store, S, 1)
      Iterated(f, it) ==
        /\ last = Idle
        /\ EnvAllowed(env)
        /\ caches' = IF f.d.threw THEN f.d.K ELSE it.K
        /\ last' = [op |-> name, selector |-> selector, options |-> options, d |-> f.d,
                    env |-> env, pre |-> caches, wrapped |-> f.wrapped, src |-> src,
                    it |-> IF f.d.threw THEN Undefined ELSE it,
                    res |-> IF f.d.threw \/ it.threw THEN Thrown ELSE Arr(it.out)]
        /\ UNCHANGED <<base, eff, store, resets, probe, fibers>>
      Found(f) == Iterated(f, cursorIterate(name, base, eff, f, Docs(src), f.d.K))
  IN Found(find(base, eff, caches, env, selector, options))

\* collection.findOne(selector, options); the host returns the entry at i,
\* or nothing when i = 0
FindOne(selector, options, env, i) ==
  LET FoundOne(f) ==
        /\ last = Idle
        /\ EnvAllowed(env)
        /\ caches' = f.d.K
        /\ last' = [op |-> "findOne", selector |-> selector, options |-> options, d |-> f.d,
                    env |-> env, pre |-> caches,
                    src |-> IF i = 0 THEN <<>> ELSE <<store[i]>>,
                    res |-> IF f.d.threw THEN Thrown ELSE f.result]
        /\ UNCHANGED <<base, eff, store, resets, probe, fibers>>
  IN FoundOne(findOne(base, eff, caches, env, selector, options,
                      IF i = 0 THEN Undefined ELSE store[i].doc))

\* EncryptedCollection.reset()
Reset ==
  /\ last = Idle
  /\ resets < MaxResets
  /\ resets' = resets + 1
  /\ caches' = [caches EXCEPT !.clients = {}, !.dataKeys = {}]
  /\ last' = [op |-> "reset"]
  /\ UNCHANGED <<base, eff, store, probe, fibers>>

\* the call returns to the caller
Return ==
  /\ last # Idle
  /\ last' = Idle
  /\ UNCHANGED <<base, eff, store, caches, resets, probe, fibers>>

-----------------------------------------------------------------------------
(* The calls made on the collection: writes and reads under the schema      *)
(* shapes, with a provider that works                                       *)

Configs ==
  {Function("const", randomOptions, SchString)}
    \cup {Static(encOptions, sch) : sch \in ShapeSchemas}
    \cup {Function("const", encOptions, sch) : sch \in ShapeSchemas}

Documents == {DocAll, DocNull, DocWhole}
Selectors == {Undefined, Str("1"), SelId}
CallOptions == {NoOptions, FastOptions, SlowOptions}
Positions == 1..Len(store)

Next ==
  \/ \E c \in Configs, extendOptions \in BOOLEAN : Configure(c, extendOptions)
  \/ \E doc \in Documents : Insert(doc, NoOptions, "ok")
  \/ \E selector \in Selectors, S \in SUBSET Positions :
       Update(selector, MutSet, NoOptions, "ok", S)
  \/ \E selector \in Selectors, S \in SUBSET Positions :
       Remove(selector, NoOptions, "ok", S)
  \/ \E name \in {"fetch", "forEach", "map"}, selector \in Selectors,
        options \in CallOptions, S \in SUBSET Positions :
       FindThen(name, selector, options, "ok", S)
  \/ \E selector \in Selectors, options \in CallOptions, i \in {0} \cup Positions :
       FindOne(selector, options, "ok", i)
  \/ Reset
  \/ Return

Spec == Init /\ [][Next]_vars

-----------------------------------------------------------------------------
(* The calls made on the collection: configurations without a schema or    *)
(* that fail, payloads the walker or the provider rejects, and a provider  *)
(* whose key vault fails                                                   *)

DocPlain == Obj(<<Field("_id", Str("1")), Field("string", Str("hello"))>>)

FaultConfigs ==
  {Static(encOptions, NoMatch), Static(encOptions, SchString),
   Static(encOptions, SchConflict), Static(encOptions, SchResolverThrows),
   Function("nothing", encOptions, NoMatch), Function("maybe", encOptions, SchString),
   Function("throws", encOptions, NoMatch)}

FaultDocuments == {DocPlain, DocNull}
FaultSelectors == {Undefined, Str("1"), SelString, SelNull, SelWhole}
FaultMutators == {MutSet, MutInc, MutSetNull}

NextFaults ==
  \/ \E c \in FaultConfigs, extendOptions \in BOOLEAN : Configure(c, extendOptions)
  \/ \E doc \in FaultDocuments, env \in Envs : Insert(doc, NoOptions, env)
  \/ \E selector \in FaultSelectors, mutator \in FaultMutators, env \in Envs,
        S \in SUBSET Positions :
       Update(selector, mutator, NoOptions, env, S)
  \/ \E selector \in FaultSelectors, env \in {"ok", "createFail"}, S \in SUBSET Positions :
       Remove(selector, NoOptions, env, S)
  \/ \E name \in {"fetch", "forEach", "map"}, selector \in FaultSelectors,
        options \in {NoOptions, FastOptions}, env \in {"ok", "readFail"},
        S \in SUBSET Positions :
       FindThen(name, selector, options, env, S)
  \/ \E selector \in FaultSelectors, env \in {"ok", "readFail"}, i \in {0} \cup Positions :
       FindOne(selector, NoOptions, env, i)
  \/ Return

SpecFaults == Init /\ [][NextFaults]_vars

-----------------------------------------------------------------------------
(* Round trip                                                               *)

ReadOps == {"fetch", "forEach", "map", "findOne"}

\* What a read that the host answers with the entries src owes its caller
Written(name, src) ==
  CASE name = "findOne" -> IF src = <<>> THEN Undefined ELSE src[1].plain
    [] name = "map" -> Arr([i \in 1..Len(src) |-> FnOf(src[i].plain)])
    [] OTHER -> Arr([i \in 1..Len(src) |-> src[i].plain])

\* C1: a read (findOne, find().fetch, find().forEach, find().map, with or
\* without fastAutoEncryption) that the host answers with documents written
\* under the configuration in force gives the caller the documents as they
\* were written: findOne returns the document, fetch the list of them,
\* forEach calls fn with each, map returns fn of each.
C1_RoundTrip ==
  (/\ last.op \in ReadOps
   /\ last.d.called
   /\ \A i \in 1..Len(last.src) : last.src[i].cur)
    => last.res = Written(last.op, last.src)

\* a document with every leaf shape, stored encrypted under a configuration
\* function, is read back by forEach on the fast path
C1_Witness ==
  /\ last.op = "forEach"
  /\ last.options = FastOptions
  /\ eff.kind = "function"
  /\ Len(last.src) = 1
  /\ last.src[1].cur
  /\ last.src[1].plain = DocAll
  /\ last.src[1].doc # DocAll
  /\ last.res = Arr(<<DocAll>>)

-----------------------------------------------------------------------------
(* Calls whose configuration has no schema                                  *)

Calls == {"insert", "update", "remove", "fetch", "forEach", "map", "findOne"}

\* the collection was never configured, is configured without a schema, or
\* its configuration function returns nothing
NoSchemaConfigured ==
  \/ eff.kind = "undefined"
  \/ eff.kind = "object" /\ eff.schema = NoMatch
  \/ eff.kind = "function" /\ eff.c.fn = "nothing"

\* The host reads a string selector as the _id it names
HostSelector(selector) == LazyString(selector)

\* C3: without a schema, insert, update, remove, find and findOne hand the
\* host the caller's document, selector and mutator (a string selector
\* counting as the _id selector the host reads it as), give the caller what
\* the host gives (for find: a cursor whose fetch, forEach and map do what
\* the host's do), and make no transform call and no provider call.
C3_NoSchemaPassthrough ==
  (last.op \in Calls /\ NoSchemaConfigured) =>
    /\ last.d.called /\ ~last.d.threw
    /\ last.d.etf = 0 /\ last.d.dtf = 0 /\ last.d.pv = 0
    /\ last.d.K = last.pre /\ caches = last.pre
    /\ last.op = "insert" => last.d.hdoc = last.doc /\ last.res = Str("id")
    /\ last.op = "update" =>
         /\ last.d.hsel = last.selector
         /\ last.d.hmut = last.mutator
         /\ last.res = Str("matched")
    /\ last.op = "remove" => last.d.hsel = last.selector /\ last.res = Str("removed")
    /\ last.op = "findOne" =>
         /\ last.d.hsel = HostSelector(last.selector)
         /\ last.res = (IF last.src = <<>> THEN Undefined ELSE last.src[1].doc)
    /\ last.op \in {"fetch", "forEach", "map"} =>
         /\ last.d.hsel = HostSelector(last.selector)
         /\ ~last.it.threw
         /\ last.it.out = hostIterate(last.op, Docs(last.src), last.pre).out
         /\ last.it.calls = hostIterate(last.op, Docs(last.src), last.pre).calls
         /\ last.it.dtf = 0 /\ last.it.pv = 0 /\ last.it.K = last.pre

\* forEach on the cursor of a collection configured without a schema never
\* calls fn
C3_ForEachSkipsCallback ==
  /\ last.op = "forEach"
  /\ eff.kind = "object"
  /\ eff.schema = NoMatch
  /\ Len(last.src) = 1
  /\ ~last.it.threw
  /\ last.it.calls = 0

\* C4: on a cursor that find returned for a collection with encryption
\* options, forEach(fn) calls fn once per result document and map(fn) returns
\* fn of each result document, whether or not a schema resolves for it.
C4_IterationDeliversAll ==
  (/\ last.op \in {"forEach", "map"}
   /\ last.d.called
   /\ last.wrapped
   /\ ~last.it.threw)
    => /\ last.it.calls = Len(last.src)
       /\ Len(last.it.out) = Len(last.src)
       /\ last.op = "map" => \A i \in 1..Len(last.src) : last.it.out[i].t = "fn"

\* map on a document for which the configuration function returns nothing
\* gives the document, not fn of it
C4_MapReturnsDocument ==
  /\ last.op = "map"
  /\ last.wrapped
  /\ eff.kind = "function"
  /\ eff.c.fn = "maybe"
  /\ Len(last.src) = 1
  /\ last.it.calls = 0
  /\ last.it.out = <<last.src[1].doc>>

-----------------------------------------------------------------------------
(* Failures while a payload is encrypted                                    *)

\* What encrypting the payload of the call l owes: whether it fails, and the
\* selector, document and mutator it makes otherwise
Encrypted(l) ==
  LET name == CASE l.op \in {"insert", "update"} -> l.op
                [] l.op \in {"remove", "findOne"} -> "findOne"
                [] OTHER -> "find"
      eo == collectionEncryptionOptions(base, eff, name, [options |-> l.options]).r
      edk == Edk(l.pre, eo.o, l.env)
      selector == IF l.op = "insert" THEN Undefined
                  ELSE IF l.op \in {"update", "remove"} THEN l.selector
                  ELSE HostSelector(l.selector)
      walks == HasSchema(eo) /\ (l.op = "update" \/ TruthyValue(selector))
      sel == IF l.op # "insert" /\ eo # Thrown /\ walks
               THEN encryptSelector(selector, eo, edk).v ELSE selector
      doc == IF l.op = "insert" /\ HasSchema(eo)
               THEN encryptInsert(l.doc, eo, edk).v
               ELSE IF l.op = "insert" THEN l.doc ELSE Undefined
      mut == IF l.op = "update" /\ HasSchema(eo)
               THEN encryptMutator(l.mutator, eo, edk).v
               ELSE IF l.op = "update" THEN l.mutator ELSE Undefined
  IN [failed |-> eo = Thrown \/ Thrown \in {sel, doc, mut},
      sel |-> sel, doc |-> doc, mut |-> mut]

\* C6: when the configuration, a resolver, the provider's encrypt or the
\* data-key creation fails while the selector, document or mutator of an
\* insert, update, remove, find or findOne is encrypted, the caller gets the
\* error and the host is not called; otherwise the host is called with the
\* whole payload encrypted, so update never hands the host an encrypted
\* selector beside an untransformed mutator.
C6_NoPartialApplication ==
  last.op \in Calls =>
    IF Encrypted(last).failed
      THEN ~last.d.called /\ last.res = Thrown
      ELSE /\ last.d.called
           /\ last.d.hsel = Encrypted(last).sel
           /\ last.d.hdoc = Encrypted(last).doc
           /\ last.d.hmut = Encrypted(last).mut

\* an update whose selector encrypts and whose mutator the walker rejects
C6_Witness ==
  /\ last.op = "update"
  /\ last.selector = SelString
  /\ last.mutator = MutSetNull
  /\ eff.kind = "object"
  /\ eff.schema # NoMatch
  /\ last.d.etf = 1
  /\ ~last.d.called
  /\ last.res = Thrown

-----------------------------------------------------------------------------
(* The pure functions called on their own: new EncryptionSchema(schema),    *)
(* collection._encryptSelector(selector), collection._encryptMutator(m).    *)
(* probe holds the arguments and the outcome of the call under way.        *)

\* the longest configured path, in segments
MaxDepth == 3

Segments == {"a", "b"}

RECURSIVE PathsOfLength(_)
PathsOfLength(n) ==
  IF n = 1 THEN {<<x>> : x \in Segments}
  ELSE {p \o <<x>> : p \in PathsOfLength(n - 1), x \in Segments}

ConfigPaths == UNION {PathsOfLength(n) : n \in 1..MaxDepth}

\* {a: {b: {c: true}}} for the path a.b.c
RECURSIVE NestedValue(_)
NestedValue(path) ==
  IF path = <<>> THEN Leaf("true")
  ELSE Obj(<< <<(<<Head(path)>>), NestedValue(Tail(path))>> >>)

\* One entry of a schema configuration for a path: "a.b.c": true when flat,
\* a: {b: {c: true}} when nested
Entry(path, nested) ==
  IF nested THEN <<(<<Head(path)>>), NestedValue(Tail(path))>> ELSE <<path, Leaf("true")>>

\* The schema configurations of two paths, in both orders; an object has no
\* key twice
PairSchemas ==
  {Obj(<<Entry(P, n1), Entry(Q, n2)>>) :
     <<P, Q, n1, n2>> \in
       {x \in ConfigPaths \X ConfigPaths \X BOOLEAN \X BOOLEAN :
          /\ x[1] # x[2]
          /\ Entry(x[1], x[3])[1] # Entry(x[2], x[4])[1]
          /\ x[3] => Len(x[1]) > 1
          /\ x[4] => Len(x[2]) > 1}}

\* new EncryptionSchema(schema)
Construct(schema) ==
  /\ probe = Idle
  /\ probe' = [op |-> "schema", schema |-> schema, built |-> EncryptionSchema(schema)]
  /\ UNCHANGED <<base, eff, store, caches, resets, last, fibers>>

\* the call returns
Clear ==
  /\ probe # Idle
  /\ probe' = Idle
  /\ UNCHANGED <<base, eff, store, caches, resets, last, fibers>>

\* The paths a schema configuration designates
RECURSIVE ConfiguredPaths(_, _)
ConfiguredPaths(e, prefix) ==
  UNION {IF e[i][2].t = "obj" THEN ConfiguredPaths(e[i][2].e, prefix \o e[i][1])
         ELSE {prefix \o e[i][1]} : i \in 1..Len(e)}

StrictPrefix(P, Q) == Len(P) < Len(Q) /\ SubSeq(Q, 1, Len(P)) = P

\* C7: constructing an EncryptionSchema fails exactly when one configured
\* path is a strict dotted prefix of another, in either order of declaration
\* and whether the paths are written flat or nested.
C7_PrefixConflict ==
  probe.op = "schema" =>
    ((probe.built = Thrown) <=>
       \E P, Q \in ConfiguredPaths(probe.schema.e, <<>>) : StrictPrefix(P, Q))

\* the longer path, written nested, is declared before its flat prefix
C7_Witness ==
  /\ probe.op = "schema"
  /\ probe.schema = Obj(<<Entry(<<"a", "b", "a">>, TRUE), Entry(<<"a", "b">>, FALSE)>>)
  /\ probe.built = Thrown

\* two paths that share a segment but not a prefix construct
C7_WitnessConstructs ==
  /\ probe.op = "schema"
  /\ probe.schema = Obj(<<Entry(<<"a", "b">>, FALSE), Entry(<<"a", "a">>, TRUE)>>)
  /\ probe.built # Thrown

-----------------------------------------------------------------------------
(* Selectors and mutators handed to _encryptSelector and _encryptMutator    *)

WalkSchemas ==
  {SchString, SchObjectFlat, SchObjectNested, SchArray, SchWildcard, SchArrayObject}

\* the options of a collection configured with encOptions and the schema
WalkOptions(schema) ==
  LET Configured(c) == collectionEncryptionOptions(c.base, c.eff, "find", Undefined).r
  IN Configured(configureEncryption(NoBase, NoEff, Static(encOptions, schema), FALSE))

FieldKeys == {<<"string">>, <<"object", "inner">>, <<"array">>, <<"other">>}

Operands ==
  {Str("hello"), Arr(<<Str("1"), Str("2")>>), Obj(<<Field("a", Str("1"))>>), Null}

ValueOperators == {"$in", "$nin", "$eq", "$ne", "$not"}

\* {F: {op: X}}
OpSelector(F, op, X) == Obj(<< <<F, Obj(<<Field(op, X)>>)>> >>)

\* {F: {$not: {op: X}}}
NotSelector(F, op, X) == OpSelector(F, "$not", Obj(<<Field(op, X)>>))

OperatorSelectors ==
  {OpSelector(F, op, X) : F \in FieldKeys, op \in ValueOperators, X \in Operands}
    \cup {NotSelector(F, op, X) :
            F \in FieldKeys, op \in ValueOperators \ {"$not"}, X \in Operands}

PassthroughOperands == {Str("true"), Str("3"), Arr(<<Str("1")>>), Obj(<<Field("a", Str("1"))>>)}

\* {F: {$exists: X}}, {F: {$size: X}}, and the same beside $in, under $not
\* and inside $or
PassthroughSelectors ==
  UNION {{OpSelector(F, op, X),
          Obj(<< <<F, Obj(<<Field(op, X), Field("$in", Arr(<<Str("hello")>>))>>)>> >>),
          NotSelector(F, op, X),
          Obj(<<Field("$or", Arr(<<OpSelector(F, op, X), SelString>>))>>)} :
         <<F, op, X>> \in FieldKeys \X {"$exists", "$size"} \X PassthroughOperands}

SubSelectors ==
  {SelString, SelIn, SelNull, Obj(<<Field("other", Str("x"))>>),
   Obj(<< <<(<<"object", "inner">>), Str("hello")>> >>),
   Obj(<<Field("array", Str("1"))>>),
   Obj(<<Field("$or", Arr(<<SelString, SelIn>>))>>),
   Obj(<<Field("$and", Arr(<<Obj(<<Field("$nor", Arr(<<SelString>>))>>)>>))>>)}

LogicalOperators == {"$and", "$or", "$nor"}

\* {op: [e1]} and {op: [e1, e2]}
LogicalSelectors ==
  {Obj(<<Field(op, Arr(<<e1>>))>>) : op \in LogicalOperators, e1 \in SubSelectors}
    \cup {Obj(<<Field(op, Arr(<<e1, e2>>))>>) :
            op \in LogicalOperators, e1 \in SubSelectors, e2 \in SubSelectors}

MutatorOperators ==
  {"$set", "$push", "$addToSet", "$pull", "$inc", "$unset", "$setOnInsert"}

MutatorOperands ==
  {Obj(<<Field("string", Str("hello"))>>),
   Obj(<< <<(<<"object", "inner">>), Str("hello")>> >>),
   Obj(<<Field("object", Obj(<<Field("inner", Str("hello"))>>))>>),
   Obj(<<Field("array", Str("hello"))>>),
   Obj(<< <<(<<"array", "0">>), Str("hello")>> >>),
   Obj(<<Field("array", Arr(<<Str("1"), Str("2")>>))>>),
   Obj(<<Field("array", Obj(<<Field("$each", Arr(<<Str("1"), Str("2")>>))>>))>>),
   Obj(<<Field("other", Str("x"))>>)}

\* {op: V} and {op1: V1, op2: V2}
WalkMutators ==
  {Obj(<<Field(op, V)>>) : op \in MutatorOperators, V \in MutatorOperands}
    \cup {Obj(<<Field(op1, V), Field(op2, V)>>) :
            <<op1, op2, V>> \in
              {x \in MutatorOperators \X MutatorOperators \X MutatorOperands : x[1] # x[2]}}

\* collection._encryptSelector(selector) under the schema
WalkSelector(schema, selector) ==
  /\ probe = Idle
  /\ probe' = [op |-> "selector", schema |-> schema, selector |-> selector,
               out |-> encryptSelector(selector, WalkOptions(schema), "ok")]
  /\ UNCHANGED <<base, eff, store, caches, resets, last, fibers>>

\* collection._encryptMutator(mutator) under the schema
WalkMutator(schema, mutator) ==
  /\ probe = Idle
  /\ probe' = [op |-> "mutator", schema |-> schema, mutator |-> mutator,
               out |-> encryptMutator(mutator, WalkOptions(schema), "ok")]
  /\ UNCHANGED <<base, eff, store, caches, resets, last, fibers>>

\* A value given directly at a field: {F: v}, with F written dotted or with
\* an array index, and the nested forms {object: {inner: v}} and
\* {object: {inner: v, plain: "x"}}
DirectValues == {Str("hello"), Arr(<<Str("1"), Str("2")>>)}

DirectKeys == {<<"string">>, <<"array">>, <<"array", "0">>, <<"object", "inner">>, <<"other">>}

NestedForm(v) == Obj(<<Field("object", Obj(<<Field("inner", v), Field("plain", Str("x"))>>))>>)

DirectSelectors ==
  {Obj(<< <<F, v>> >>) : F \in DirectKeys, v \in DirectValues}
    \cup {NestedForm(v) : v \in DirectValues}
    \cup {Obj(<<Field("object", Obj(<<Field("inner", v)>>))>>) : v \in DirectValues}

\* Documents to insert, and documents as the host returns them: a document
\* has no dotted key
DocumentKeys == {<<"string">>, <<"array">>, <<"other">>}

StoredValues ==
  DirectValues \cup {Bin(Str("hello"), "Deterministic"),
                     Arr(<<Bin(Str("1"), "Deterministic"), Bin(Str("2"), "Deterministic")>>)}

WalkDocuments ==
  {Obj(<< <<F, v>> >>) : F \in DocumentKeys, v \in StoredValues}
    \cup {NestedForm(v) : v \in StoredValues}

\* { other: null } and { string: "hello", other: null }: null at a key that
\* no schema designates
NullPayloads ==
  {Obj(<<Field("other", Null)>>),
   Obj(<<Field("string", Str("hello")), Field("other", Null)>>)}

\* collection._encryptInsert(doc) under the schema
WalkInsert(schema, doc) ==
  /\ probe = Idle
  /\ probe' = [op |-> "insert", schema |-> schema, doc |-> doc,
               out |-> encryptInsert(doc, WalkOptions(schema), "ok")]
  /\ UNCHANGED <<base, eff, store, caches, resets, last, fibers>>

\* The decrypt walk that wrapCursor and _findOne make of a result document
WalkDecrypt(schema, doc) ==
  /\ probe = Idle
  /\ probe' = [op |-> "decrypt", schema |-> schema, doc |-> doc,
               out |-> decryptDocument(doc, WalkOptions(schema))]
  /\ UNCHANGED <<base, eff, store, caches, resets, last, fibers>>

\* {string: descriptor} for each kind of descriptor: false, true, a static
\* options object, and functions that return true, an options object and a
\* falsy value
SchFalse == Obj(<<Field("string", Leaf("false"))>>)
SchStaticOptions == Obj(<<Field("string", Obj(<<Field("algorithm", Leaf("Random"))>>))>>)
SchFnTrue == Obj(<<Field("string", Leaf("fnTrue"))>>)
SchFnOptions == Obj(<<Field("string", Leaf("fnRandom"))>>)
SchFnFalsy == Obj(<<Field("string", Leaf("fnFalsy"))>>)

LeafSchemas == {SchString, SchFalse, SchStaticOptions, SchFnTrue, SchFnOptions, SchFnFalsy}

\* { "object.inner": false, "object.*": true } and
\* { "object.inner": false, "object.$": true }: an exact entry that is false
\* beside a wildcard and beside an array sentinel
SchExactWildcard ==
  Obj(<< <<(<<"object", "inner">>), Leaf("false")>>, <<(<<"object", "*">>), Leaf("true")>> >>)
SchExactArray ==
  Obj(<< <<(<<"object", "inner">>), Leaf("false")>>, <<(<<"object", "$">>), Leaf("true")>> >>)

ExactSchemas == {SchExactWildcard, SchExactArray}

\* The paths looked up in a schema
LookupPaths ==
  {<<"string">>, <<"object">>, <<"array">>, <<"other">>, <<"object", "inner">>,
   <<"object", "x">>, <<"object", "0">>, <<"array", "$">>, <<"array", "inner">>,
   <<"array", "0">>, <<"object", "$">>, <<"string", "algorithm">>}

\* new EncryptionSchema(schema).encryptionOptions(path)
Lookup(schema, path) ==
  LET Looked(built) ==
        probe' = [op |-> "lookup", schema |-> schema, path |-> path, built |-> built,
                  out |-> IF built = Thrown THEN [r |-> Thrown, rc |-> 0]
                          ELSE encryptionOptions(built.m, path)]
  IN /\ probe = Idle
     /\ Looked(EncryptionSchema(schema))
     /\ UNCHANGED <<base, eff, store, caches, resets, last, fibers>>

NextWalk ==
  \/ \E schema \in PairSchemas : Construct(schema)
  \/ \E schema \in WalkSchemas,
        selector \in OperatorSelectors \cup PassthroughSelectors \cup LogicalSelectors
                       \cup DirectSelectors \cup NullPayloads :
       WalkSelector(schema, selector)
  \/ \E schema \in WalkSchemas, mutator \in WalkMutators : WalkMutator(schema, mutator)
  \/ \E schema \in WalkSchemas \cup LeafSchemas \cup ExactSchemas,
        doc \in WalkDocuments \cup NullPayloads :
       WalkInsert(schema, doc)
  \/ \E schema \in WalkSchemas, doc \in WalkDocuments : WalkDecrypt(schema, doc)
  \/ \E schema \in WalkSchemas \cup LeafSchemas \cup ExactSchemas, path \in LookupPaths :
       Lookup(schema, path)
  \/ Clear

SpecWalk == Init /\ [][NextWalk]_vars

-----------------------------------------------------------------------------
(* What the walker owes for operators                                       *)

\* the fields each schema designates
Designated ==
  {<<SchString, <<"string">> >>, <<SchObjectFlat, <<"object", "inner">> >>,
   <<SchObjectNested, <<"object", "inner">> >>, <<SchWildcard, <<"object", "inner">> >>,
   <<SchArray, <<"array">> >>}

\* the transform of a value: the provider's encryption under encOptions
Transform(v) == ProviderEncrypt(v, encOptions)

\* the operand of op with every wrapped value replaced by its transform
TransformedOperand(op, X) ==
  IF op \in {"$in", "$nin"} /\ X.t = "arr"
    THEN IF \E i \in 1..Len(X.a) : Transform(X.a[i]) = Thrown THEN Thrown
         ELSE Arr([i \in 1..Len(X.a) |-> Transform(X.a[i])])
    ELSE Transform(X)

Transparent(F, op, X) ==
  IF TransformedOperand(op, X) = Thrown THEN Thrown
  ELSE OpSelector(F, op, TransformedOperand(op, X))

TransparentNot(F, op, X) ==
  IF TransformedOperand(op, X) = Thrown THEN Thrown
  ELSE NotSelector(F, op, TransformedOperand(op, X))

\* C2: for a designated field F, the encryption of {F: {op: X}} and of
\* {F: {$not: {op: X}}} with op among $in, $nin, $eq, $ne, $not keeps the
\* operator keys where they are and replaces every wrapped value (each
\* element of an $in/$nin array, the operand otherwise) by its transform,
\* whatever the shape of X: scalar, array, object or null.
C2_OperatorTransparency ==
  probe.op = "selector" =>
    \A F \in FieldKeys, op \in ValueOperators, X \in Operands :
      <<probe.schema, F>> \in Designated =>
        /\ probe.selector = OpSelector(F, op, X) => probe.out.v = Transparent(F, op, X)
        /\ (op # "$not" /\ probe.selector = NotSelector(F, op, X))
             => probe.out.v = TransparentNot(F, op, X)

\* $ne is a supported operator that is neither an array nor a nested
\* operator: with a null operand its key is left out of the output
C2_NeNullDropped ==
  /\ probe.op = "selector"
  /\ probe.schema = SchString
  /\ probe.selector = OpSelector(<<"string">>, "$ne", Null)
  /\ probe.out.v = Obj(<<Field("string", Obj(<<>>))>>)
  /\ probe.out.tf = 0

\* what holds: scalar operands, and arrays of scalars under $in and $nin
C2_ScalarOperands ==
  probe.op = "selector" =>
    \A F \in FieldKeys, op \in ValueOperators,
       X \in {Str("hello"), Arr(<<Str("1"), Str("2")>>)} :
      (/\ <<probe.schema, F>> \in Designated
       /\ probe.selector = OpSelector(F, op, X)
       /\ X.t = "arr" => op \in {"$in", "$nin"})
        => probe.out.v = Transparent(F, op, X)

\* the selector with a passthrough operator's value kept wherever it occurs
RECURSIVE Kept(_, _)
Kept(in, out) ==
  CASE in.t = "obj" ->
         /\ out.t = "obj"
         /\ Len(out.e) = Len(in.e)
         /\ \A i \in 1..Len(in.e) :
              /\ out.e[i][1] = in.e[i][1]
              /\ IF HasOp({"$exists", "$size"}, in.e[i][1]) THEN out.e[i][2] = in.e[i][2]
                 ELSE IF in.e[i][2].t \in {"obj", "arr"} /\ out.e[i][2].t = in.e[i][2].t
                   THEN Kept(in.e[i][2], out.e[i][2])
                 ELSE TRUE
    [] in.t = "arr" ->
         /\ out.t = "arr"
         /\ Len(out.a) = Len(in.a)
         /\ \A i \in 1..Len(in.a) : Kept(in.a[i], out.a[i])
    [] OTHER -> TRUE

\* C8: the value under a $exists or $size key of a selector is copied to the
\* output as it is and no transform is made for it, also when the enclosing
\* field is designated, exactly or through K.$: {F: {$exists: X}} and
\* {F: {$not: {$exists: X}}} come out unchanged without a transform, and
\* beside $in or inside $or only the other values are transformed.
C8_PassthroughOperators ==
  (probe.op = "selector" /\ probe.selector \in PassthroughSelectors) =>
    /\ probe.out.v # Thrown
    /\ Kept(probe.selector, probe.out.v)
    /\ probe.out.tf <= 1
    /\ \A F \in FieldKeys, op \in {"$exists", "$size"}, X \in PassthroughOperands :
         probe.selector \in {OpSelector(F, op, X), NotSelector(F, op, X)}
           => probe.out.v = probe.selector /\ probe.out.tf = 0

\* {array: {$size: 3}} under array.$
C8_Witness ==
  /\ probe.op = "selector"
  /\ probe.schema = SchArray
  /\ probe.selector = OpSelector(<<"array">>, "$size", Str("3"))
  /\ probe.out.v = probe.selector
  /\ probe.out.tf = 0

\* what _encryptSelector makes of a selector at the top level
TopLevel(schema, selector) == encryptSelector(selector, WalkOptions(schema), "ok")

\* C9: the encryption of {op: [e1, .., en]}, op among $and, $or, $nor, is
\* {op: [the encryption of e1, .., the encryption of en]}, each ei encrypted
\* as it is at the top level of a selector, at any depth of logical
\* operators; it fails when one of them does.
C9_LogicalOperators ==
  (probe.op = "selector" /\ probe.selector \in LogicalSelectors) =>
    LET op == probe.selector.e[1][1]
        es == probe.selector.e[1][2].a
        walked == [i \in 1..Len(es) |-> TopLevel(probe.schema, es[i]).v]
    IN IF \E i \in 1..Len(es) : walked[i] = Thrown THEN probe.out.v = Thrown
       ELSE probe.out.v = Obj(<< <<op, Arr(walked)>> >>)

\* a designated field is encrypted two logical operators deep
C9_Witness ==
  /\ probe.op = "selector"
  /\ probe.schema = SchString
  /\ probe.selector =
       Obj(<<Field("$nor", Arr(<<Obj(<<Field("other", Str("x"))>>),
                                 Obj(<<Field("$or", Arr(<<SelString, SelIn>>))>>)>>))>>)
  /\ probe.out.v =
       Obj(<<Field("$nor", Arr(<<Obj(<<Field("other", Str("x"))>>),
          Obj(<<Field("$or", Arr(<<
            Obj(<<Field("string", Bin(Str("hello"), "Deterministic"))>>),
            Obj(<<Field("string", Obj(<<Field("$in",
               Arr(<<Bin(Str("hello"), "Deterministic")>>))>>))>>)>>))>>)>>))>>)

\* C10: _encryptMutator gives a mutator with the input's top-level operator
\* keys, in which the value under $set, $push, $addToSet and $pull has its
\* designated fields transformed ($each included) and the value under every
\* other operator is the input's.
C10_UpdateMutators ==
  probe.op = "mutator" =>
    /\ probe.out.v.t = "obj"
    /\ Len(probe.out.v.e) = Len(probe.mutator.e)
    /\ \A i \in 1..Len(probe.mutator.e) :
         /\ probe.out.v.e[i][1] = probe.mutator.e[i][1]
         /\ probe.out.v.e[i][2] =
              IF probe.mutator.e[i][1][1] \in {"$set", "$push", "$addToSet", "$pull"}
                THEN TopLevel(probe.schema, probe.mutator.e[i][2]).v
                ELSE probe.mutator.e[i][2]

\* $pull with $each on an array field beside $inc
C10_Witness ==
  LET V == Obj(<<Field("array", Obj(<<Field("$each", Arr(<<Str("1"), Str("2")>>))>>))>>)
  IN /\ probe.op = "mutator"
     /\ probe.schema = SchArray
     /\ probe.mutator = Obj(<<Field("$pull", V), Field("$inc", V)>>)
     /\ probe.out.v =
          Obj(<<Field("$pull", Obj(<<Field("array", Obj(<<Field("$each",
                  Arr(<<Bin(Str("1"), "Deterministic"), Bin(Str("2"), "Deterministic")>>))>>))>>)),
                Field("$inc", V)>>)

-----------------------------------------------------------------------------
(* What the walker owes for values given directly at a field               *)

\* {key: v}
At(key, v) == Obj(<< <<key, v>> >>)

\* the transform of the walk conv of a value
TransformOf(conv, v) == IF conv = "decrypt" THEN ProviderDecrypt(v) ELSE Transform(v)

\* an array with every element replaced by its transform
ElementWise(conv, X) ==
  IF \E i \in 1..Len(X.a) : TransformOf(conv, X.a[i]) = Thrown THEN Thrown
  ELSE Arr([i \in 1..Len(X.a) |-> TransformOf(conv, X.a[i])])

\* {key: X} with the array X transformed element by element
AtElementWise(conv, key, X) ==
  IF ElementWise(conv, X) = Thrown THEN Thrown ELSE At(key, ElementWise(conv, X))

C11_WitnessInsert ==
  /\ probe.op = "insert"
  /\ probe.schema = SchArray
  /\ probe.doc = At(<<"array">>, Str("hello"))
  /\ probe.out.v = probe.doc

\* the array at array of a result document is decrypted element by element
C11_WitnessDecrypt ==
  /\ probe.op = "decrypt"
  /\ probe.schema = SchArray
  /\ probe.doc = At(<<"array">>, Arr(<<Bin(Str("1"), "Deterministic"), Bin(Str("2"), "Deterministic")>>))
  /\ probe.out.v = At(<<"array">>, Arr(<<Str("1"), Str("2")>>))

-----------------------------------------------------------------------------
(* What a schema lookup owes                                                *)

\* encryptionOptions(path) yields a match: a truthy value
Matches(out) == out.r \notin {NoMatch, Thrown}

\* C12: for a schema that declares only object.inner (flat or nested),
\* array.$, object.* or array.$.inner, encryptionOptions of the container key
\* (object, array) yields no match, while encryptionOptions of object.inner,
\* of array.$, of object.x for an ordinary sub-key x under the wildcard, and
\* of array.inner under array.$.inner (the array marker skipped) yields a
\* match.
C12_ContainersDoNotResolve ==
  probe.op = "lookup" =>
    /\ (probe.schema \in {SchObjectFlat, SchObjectNested, SchWildcard}
          /\ probe.path = <<"object">>) => probe.out.r = NoMatch
    /\ (probe.schema \in {SchArray, SchArrayObject}
          /\ probe.path = <<"array">>) => probe.out.r = NoMatch
    /\ (probe.schema \in {SchObjectFlat, SchObjectNested}
          /\ probe.path = <<"object", "inner">>) => Matches(probe.out)
    /\ (probe.schema = SchArray /\ probe.path = <<"array", "$">>) => Matches(probe.out)
    /\ (probe.schema = SchWildcard
          /\ probe.path \in {<<"object", "inner">>, <<"object", "x">>, <<"object", "0">>})
         => Matches(probe.out)
    /\ (probe.schema = SchArrayObject /\ probe.path = <<"array", "inner">>)
         => Matches(probe.out)

\* array.inner is looked up under array.$.inner
C12_Witness ==
  /\ probe.op = "lookup"
  /\ probe.schema = SchArrayObject
  /\ probe.path = <<"array", "inner">>
  /\ probe.out.r = Opts(EmptyOpts)

\* the container key of a wildcard is looked up
C12_WitnessContainer ==
  /\ probe.op = "lookup"
  /\ probe.schema = SchWildcard
  /\ probe.path = <<"object">>
  /\ probe.out.r = NoMatch

-----------------------------------------------------------------------------
(* Dotted and nested forms of one field                                     *)

\* {"object.inner": v}
DottedForm(v) == At(<<"object", "inner">>, v)

\* {object: {inner: v}}
ObjectForm(v) == At(<<"object">>, At(<<"inner">>, v))

\* the dotted or nested form of v with v replaced by its transform; Thrown
\* when the provider rejects v
Replaced(dotted, v) ==
  IF Transform(v) = Thrown THEN Thrown
  ELSE IF dotted THEN DottedForm(Transform(v)) ELSE ObjectForm(Transform(v))

\* the same under $set
ReplacedSet(dotted, v) ==
  IF Transform(v) = Thrown THEN Thrown ELSE At(<<"$set">>, Replaced(dotted, v))

\* {object: {inner: v, plain: "x"}} with the designated values transformed:
\* plain is designated by object.* only
NestedFormReplaced(schema, v) ==
  IF Transform(v) = Thrown THEN Thrown
  ELSE Obj(<<Field("object",
         Obj(<<Field("inner", Transform(v)),
               Field("plain", IF schema = SchWildcard THEN Transform(Str("x")) ELSE Str("x"))>>))>>)

\* C13: under a schema that declares object.inner (flat or nested) or
\* object.*, the selectors {"object.inner": v} and {object: {inner: v}}, and
\* the same two forms under $set, come out in the shape they went in with v
\* replaced by its transform, by a single conversion; a sibling key that the
\* schema does not designate is copied unchanged.
C13_DottedNestedAgree ==
  (probe.op \in {"selector", "mutator"}
     /\ probe.schema \in {SchObjectFlat, SchObjectNested, SchWildcard}) =>
    \A v \in DirectValues :
      /\ probe.op = "selector" =>
           /\ probe.selector = DottedForm(v) => probe.out.v = Replaced(TRUE, v)
           /\ probe.selector = ObjectForm(v) => probe.out.v = Replaced(FALSE, v)
           /\ probe.selector \in {DottedForm(v), ObjectForm(v)} /\ Transform(v) # Thrown
                => probe.out.tf = 1
           /\ probe.selector = NestedForm(v)
                => probe.out.v = NestedFormReplaced(probe.schema, v)
      /\ probe.op = "mutator" =>
           /\ probe.mutator = At(<<"$set">>, DottedForm(v))
                => probe.out.v = ReplacedSet(TRUE, v)
           /\ probe.mutator = At(<<"$set">>, ObjectForm(v))
                => probe.out.v = ReplacedSet(FALSE, v)

\* the nested form of a selector under the flat schema
C13_Witness ==
  /\ probe.op = "selector"
  /\ probe.schema = SchObjectFlat
  /\ probe.selector = ObjectForm(Str("hello"))
  /\ probe.out.v = ObjectForm(Bin(Str("hello"), "Deterministic"))
  /\ probe.out.tf = 1

\* the dotted form under $set and the wildcard schema
C13_WitnessSet ==
  /\ probe.op = "mutator"
  /\ probe.schema = SchWildcard
  /\ probe.mutator = At(<<"$set">>, DottedForm(Str("hello")))
  /\ probe.out.v = At(<<"$set">>, DottedForm(Bin(Str("hello"), "Deterministic")))

-----------------------------------------------------------------------------
(* Leaf descriptors                                                         *)

\* the lookup of string under {string: descriptor}
LeafLookup(schema) ==
  probe.op = "lookup" /\ probe.schema = schema /\ probe.path = <<"string">>

\* C14, as the specification states it: the lookup of P under a schema whose
\* entry for P is the static options object {algorithm: A} yields that
\* object as the options for P.
C14_StaticOptionsObject ==
  LeafLookup(SchStaticOptions) => probe.out.r = Opts([algorithm |-> "Random"])

\* C14, amended: the lookup of P yields no match when the entry for P is
\* false or absent, an empty options object when it is true, and, when it is
\* a function, the value the function returns from its single invocation (a
\* falsy value being no match); an entry that is a static options object
\* {algorithm: A} is read as the nested path P.algorithm, so that the lookup
\* of P yields no match and the lookup of P.algorithm yields A.
C14_LeafDescriptors ==
  /\ LeafLookup(SchFalse) => probe.out = [r |-> NoMatch, rc |-> 0]
  /\ (probe.op = "lookup" /\ probe.schema \in LeafSchemas /\ probe.path = <<"other">>)
       => probe.out = [r |-> NoMatch, rc |-> 0]
  /\ LeafLookup(SchString) => probe.out = [r |-> Opts(EmptyOpts), rc |-> 0]
  /\ LeafLookup(SchFnTrue) => probe.out = [r |-> True, rc |-> 1]
  /\ LeafLookup(SchFnOptions) => probe.out = [r |-> Opts([algorithm |-> "Random"]), rc |-> 1]
  /\ LeafLookup(SchFnFalsy) => probe.out = [r |-> NoMatch, rc |-> 1]
  /\ LeafLookup(SchStaticOptions) => probe.out = [r |-> NoMatch, rc |-> 0]
  /\ (probe.op = "lookup" /\ probe.schema = SchStaticOptions
        /\ probe.path = <<"string", "algorithm">>)
       => probe.out = [r |-> Str("Random"), rc |-> 0]

\* the lookup of string under {string: {algorithm: A}} yields no match
C14_Witness ==
  /\ LeafLookup(SchStaticOptions)
  /\ probe.out.r = NoMatch

\* a function descriptor is invoked once and its options object returned
C14_WitnessFunction ==
  /\ LeafLookup(SchFnOptions)
  /\ probe.out = [r |-> Opts([algorithm |-> "Random"]), rc |-> 1]

\* under {string: {algorithm: A}} the document {string: "hello"} is handed to
\* the host with string in the clear
C14_WitnessStoredInClear ==
  /\ probe.op = "insert"
  /\ probe.schema = SchStaticOptions
  /\ probe.doc = At(<<"string">>, Str("hello"))
  /\ probe.out.v = probe.doc

-----------------------------------------------------------------------------
(* ensureDataKey run by several fibers.  Promise.await yields the fiber at  *)
(* the key-vault read and at createDataKey, so the steps of one call        *)
(* interleave with those of the others.  A fiber is [pc, alias, seen]:      *)
(*   pc     "start", "reading" (the vault query is issued), "read" (the     *)
(*          vault has answered), "creating" (createDataKey is issued),      *)
(*          "created" (the provider has stored the key), "done"             *)
(*   alias  the keyAltName it needs                                         *)
(*   seen   the aliases the vault answered with                             *)

\* the most fibers that call ensureDataKey
MaxFibers == 2

TheClient == ClientKey(encOptions)

\* an operation reaches encryptValue and calls ensureDataKey
Enter(alias) ==
  /\ Len(fibers) < MaxFibers
  /\ fibers' = Append(fibers, [pc |-> "start", alias |-> alias, seen |-> {}])
  /\ UNCHANGED <<base, eff, store, caches, resets, last, probe>>

\* if (!clientDataKeys.has(keyAltName)): issue the key-vault query
CheckCache(f) ==
  /\ fibers[f].pc = "start"
  /\ IF <<TheClient, fibers[f].alias>> \in caches.dataKeys
       THEN /\ fibers' = [fibers EXCEPT ![f].pc = "done"]
            /\ UNCHANGED caches
       ELSE /\ fibers' = [fibers EXCEPT ![f].pc = "reading"]
            /\ caches' = [caches EXCEPT !.reads = @ + 1]
  /\ UNCHANGED <<base, eff, store, resets, last, probe>>

\* the key vault answers find({}).toArray()
VaultAnswers(f) ==
  /\ fibers[f].pc = "reading"
  /\ fibers' = [fibers EXCEPT ![f].pc = "read", ![f].seen = VaultAliases(caches)]
  /\ UNCHANGED <<base, eff, store, caches, resets, last, probe>>

\* the fiber resumes: existingKeys.forEach(... clientDataKeys.set ...), then
\* if (!clientDataKeys.has(keyAltName)) issue createDataKey
LoadKeys(f) ==
  LET loaded == caches.dataKeys \cup {<<TheClient, a>> : a \in fibers[f].seen}
  IN /\ fibers[f].pc = "read"
     /\ IF <<TheClient, fibers[f].alias>> \in loaded
          THEN /\ fibers' = [fibers EXCEPT ![f].pc = "done"]
               /\ caches' = [caches EXCEPT !.dataKeys = loaded]
          ELSE /\ fibers' = [fibers EXCEPT ![f].pc = "creating"]
               /\ caches' = [caches EXCEPT !.dataKeys = loaded,
                                           !.creates[fibers[f].alias] = @ + 1]
     /\ UNCHANGED <<base, eff, store, resets, last, probe>>

\* the provider stores the new data key in the vault
KeyStored(f) ==
  /\ fibers[f].pc = "creating"
  /\ fibers' = [fibers EXCEPT ![f].pc = "created"]
  /\ caches' = [caches EXCEPT !.vault[fibers[f].alias] = @ + 1]
  /\ UNCHANGED <<base, eff, store, resets, last, probe>>

\* the fiber resumes: clientDataKeys.set(keyAltName, ...)
CacheKey(f) ==
  /\ fibers[f].pc = "created"
  /\ fibers' = [fibers EXCEPT ![f].pc = "done"]
  /\ caches' = [caches EXCEPT !.dataKeys = @ \cup {<<TheClient, fibers[f].alias>>}]
  /\ UNCHANGED <<base, eff, store, resets, last, probe>>

NextConc ==
  \/ \E alias \in Aliases : Enter(alias)
  \/ \E f \in 1..Len(fibers) : CheckCache(f)
  \/ \E f \in 1..Len(fibers) : VaultAnswers(f)
  \/ \E f \in 1..Len(fibers) : LoadKeys(f)
  \/ \E f \in 1..Len(fibers) : KeyStored(f)
  \/ \E f \in 1..Len(fibers) : CacheKey(f)

SpecConc == Init /\ [][NextConc]_vars

\* C5: whatever the interleaving of the calls that need a data key that is
\* neither cached nor in the vault, at most one createDataKey call is issued
\* for an alias, and the vault never holds two data keys for it.
C5_SingleFlight ==
  \A a \in Aliases : caches.creates[a] <= 1 /\ caches.vault[a] <= 1

\* two fibers have each created a data key for the same alias
C5_TwoKeys ==
  /\ Len(fibers) = 2
  /\ fibers[1].alias = "everything" /\ fibers[2].alias = "everything"
  /\ fibers[1].pc = "done" /\ fibers[2].pc = "done"
  /\ caches.creates["everything"] = 2
  /\ caches.vault["everything"] = 2

-----------------------------------------------------------------------------
(* The provider caches on their own: the conversions of encrypt walks made  *)
(* one after another under varying options, with reset() between them.     *)
(* probe holds the last conversion: its options, what the external calls   *)
(* did (env), the caches before and after it (pre, post), the client       *)
(* instance it got, and whether it threw; served is history the program    *)
(* does not keep, the <<connection, kmsProviders, keyVaultNamespace,       *)
(* instance>> of the conversions so far.                                   *)

\* the most key-vault reads
MaxVaultReads == 2

Connections == {"db", "remote"}
KmsObjects == {<<"local">>, <<"aws", "local">>, <<"local", "aws">>}
Namespaces == {"meteor.keyVault", "meteor.keys"}

\* mergedOptions of a conversion
ProviderOptions ==
  {[mongoClient |-> c, keyVaultNamespace |-> ns, kmsProviders |-> kms,
    masterKey |-> "masterKey", provider |-> "local", keyAltName |-> a,
    algorithm |-> "Deterministic"] :
     c \in Connections, ns \in Namespaces, kms \in KmsObjects, a \in Aliases}

Served == IF probe = Idle THEN {} ELSE probe.served

\* One conversion of an encrypt walk: ensureEncryptionClient(mergedOptions),
\* then encryptValue, which starts with ensureDataKey
EncryptValue(options, env) ==
  LET Keyed(K1, K2) ==
        /\ last = Idle
        /\ K2.reads <= MaxVaultReads
        /\ caches' = K2
        /\ probe' = [op |-> "encryptValue", options |-> options, env |-> env,
                     pre |-> caches, post |-> K2, client |-> ClientOf(K1, options),
                     threw |-> ensureDataKeyFails(K1, ClientKey(options), Alias(options), env),
                     served |-> Served \cup {<<options.mongoClient, options.kmsProviders,
                                               options.keyVaultNamespace,
                                               ClientOf(K1, options)>>}]
        /\ UNCHANGED <<base, eff, store, resets, last, fibers>>
      Ensured(K1) == Keyed(K1, ensureDataKey(K1, ClientKey(options), Alias(options), env))
  IN Ensured(ensureEncryptionClient(caches, options))

NextKeys ==
  \/ \E options \in ProviderOptions, env \in Envs : EncryptValue(options, env)
  \/ Reset
  \/ Return

SpecKeys == Init /\ [][NextKeys]_vars

\* the conversion the caches have just served
Converted == probe # Idle /\ probe.op = "encryptValue"

\* the cache entry of the conversion's alias
Entry0(K) == <<ClientKey(probe.options), Alias(probe.options)>> \in K.dataKeys

\* C15: createDataKey is called for an alias only when neither the data-key
\* cache of the client nor the key vault holds the alias, and for no other
\* alias than the one requested; the vault never holds two data keys for one
\* alias, and a conversion that finds the alias in the vault, as after
\* reset(), creates none.
C15_IdempotentCreation ==
  /\ \A a \in Aliases : caches.vault[a] <= 1
  /\ Converted =>
       \A a \in Aliases :
         /\ probe.post.creates[a] > probe.pre.creates[a]
              => /\ a = Alias(probe.options)
                 /\ ~Entry0(probe.pre)
                 /\ probe.pre.vault[a] = 0
                 /\ probe.post.creates[a] = probe.pre.creates[a] + 1
         /\ probe.pre.vault[a] > 0 => probe.post.vault[a] = probe.pre.vault[a]

\* after reset() the alias is found in the vault and no key is created
C15_Witness ==
  /\ Converted
  /\ resets = 1
  /\ probe.pre.dataKeys = {}
  /\ probe.pre.vault[Alias(probe.options)] = 1
  /\ Entry0(probe.post)
  /\ probe.post.creates = probe.pre.creates
  /\ probe.post.reads = probe.pre.reads + 1

\* the alias is in neither and createDataKey is called
C15_WitnessCreates ==
  /\ Converted
  /\ probe.post.creates[Alias(probe.options)] = probe.pre.creates[Alias(probe.options)] + 1
  /\ probe.post.vault[Alias(probe.options)] = 1

\* the keys of an object, whatever their order
KeysOf(kms) == {kms[i] : i \in 1..Len(kms)}

\* two served conversions had the same connection and configurations equal
\* up to the order of the object's keys
SameConfiguration(x, y) == x[1] = y[1] /\ KeysOf(x[2]) = KeysOf(y[2]) /\ x[3] = y[3]

\* C16: as long as reset() has not been called, two conversions were served
\* by the same client instance if and only if they had the same connection
\* and configurations {kmsProviders, keyVaultNamespace} equal up to the
\* order of keys, and as many ClientEncryption objects have been constructed
\* as there were distinct such pairs of connection and configuration.
C16_ClientMemoization ==
  resets = 0 =>
    /\ \A x, y \in Served : (x[4] = y[4]) <=> SameConfiguration(x, y)
    /\ \E reps \in SUBSET Served :
         /\ \A x \in Served : \E y \in reps : SameConfiguration(x, y)
         /\ \A x, y \in reps : SameConfiguration(x, y) => x = y
         /\ caches.made = Cardinality(reps)

\* one instance served {aws, local} and {local, aws}, another the other
\* connection
C16_Witness ==
  /\ resets = 0
  /\ caches.made = 2
  /\ \E x, y, z \in Served :
       /\ x[2] = <<"aws", "local">> /\ y[2] = <<"local", "aws">>
       /\ x[4] = y[4]
       /\ z[1] # x[1] /\ z[4] # x[4]

\* C17, as the specification states it: a conversion whose client already
\* holds cached data keys, and so is not on its first data-key access, reads
\* nothing from the key vault.
C17_ReadOnFirstAccessOnly ==
  (Converted /\ \E a \in Aliases : <<ClientKey(probe.options), a>> \in probe.pre.dataKeys)
    => probe.post.reads = probe.pre.reads

\* a client that has the alias everything cached reads the whole key vault
\* again for the alias tenant
C17_SecondRead ==
  /\ Converted
  /\ probe.env = "ok"
  /\ Alias(probe.options) = "tenant"
  /\ <<ClientKey(probe.options), "everything">> \in probe.pre.dataKeys
  /\ probe.post.reads = probe.pre.reads + 1

\* what holds of the read: it is made exactly when the requested alias is
\* not cached for the client, and when it succeeds every alias in the vault
\* is cached for the client afterwards
C17_ReadOnEveryMiss ==
  Converted =>
    /\ probe.post.reads = probe.pre.reads + (IF Entry0(probe.pre) THEN 0 ELSE 1)
    /\ (~Entry0(probe.pre) /\ probe.env # "readFail")
         => \A a \in Aliases :
              probe.pre.vault[a] > 0 => <<ClientKey(probe.options), a>> \in probe.post.dataKeys

\* the next conversion is one for the client and alias of the last one
Again ==
  /\ probe'.op = "encryptValue"
  /\ probe' # probe
  /\ ClientKey(probe'.options) = ClientKey(probe.options)
  /\ Alias(probe'.options) = Alias(probe.options)

\* C18: when the key-vault read or createDataKey fails in a conversion, the
\* data-key cache holds no entry for the conversion's alias afterwards; the
\* next conversion that needs the alias reads the key vault again, calls
\* createDataKey again if the vault still lacks the alias, and, when the
\* provider then succeeds, does not throw and leaves the alias cached.
C18_FailuresNotCached ==
  [][/\ (probe'.op = "encryptValue" /\ probe'.threw) => ~Entry0(caches)'
     /\ (Converted /\ probe.threw /\ Again) =>
          /\ caches'.reads = caches.reads + 1
          /\ probe'.env # "readFail" /\ caches.vault[Alias(probe.options)] = 0
               => caches'.creates[Alias(probe.options)]
                    = caches.creates[Alias(probe.options)] + 1
          /\ probe'.env = "ok" => ~probe'.threw /\ Entry0(caches)']_vars

\* createDataKey has failed for the alias and the alias is not cached
C18_Witness ==
  /\ Converted
  /\ probe.env = "createFail"
  /\ probe.threw
  /\ ~Entry0(probe.post)
  /\ probe.post.creates[Alias(probe.options)] = 1

\* the conversion after a failed one has created the key
C18_WitnessRetry ==
  /\ Converted
  /\ probe.env = "ok"
  /\ ~probe.threw
  /\ probe.pre.creates[Alias(probe.options)] = 1
  /\ probe.pre.vault[Alias(probe.options)] = 0
  /\ probe.post.creates[Alias(probe.options)] = 2
  /\ Entry0(probe.post)

-----------------------------------------------------------------------------
(* The cursor of find on its own: a collection configured with c, whose    *)
(* host returns the documents plains as _encryptInsert stored them, is     *)
(* read by find(selector, options).fetch(), .forEach(fn) or .map(fn).      *)

\* the most documents a cursor yields
MaxResults == 2

\* a static configuration, a configuration function, and one that declines
\* (returns undefined) when called for a result document
ReadConfigs ==
  {Static(encOptions, SchString), Function("const", encOptions, SchString),
   Function("maybe", encOptions, SchString)}

ResultDocuments ==
  {Obj(<<Field("_id", Str("1")), Field("string", Str("hello"))>>),
   Obj(<<Field("_id", Str("2")), Field("string", Str("goodbye"))>>)}

ResultLists == UNION {[1..n -> ResultDocuments] : n \in 0..MaxResults}

\* collection.find(undefined, options), then fetch, forEach or map
Iterate(c, name, options, plains) ==
  LET Iterated(cfg, docs, f, it) ==
        /\ probe = Idle
        /\ probe' = [op |-> name, c |-> c, options |-> options, plains |-> plains,
                     docs |-> docs, wrapped |-> f.wrapped, root |-> f.root, it |-> it]
        /\ UNCHANGED <<base, eff, store, caches, resets, last, fibers>>
      Found(cfg, docs, f) ==
        Iterated(cfg, docs, f, cursorIterate(name, cfg.base, cfg.eff, f, docs, f.d.K))
      Stored(cfg, eo) ==
        Found(cfg, [i \in 1..Len(plains) |-> encryptInsert(plains[i], eo, "ok").v],
              find(cfg.base, cfg.eff, caches, "ok", Undefined, options))
      Configured(cfg) ==
        Stored(cfg, collectionEncryptionOptions(cfg.base, cfg.eff, "insert", Undefined).r)
  IN Configured(configureEncryption(NoBase, NoEff, c, FALSE))

\* collection.findOne(undefined, options), the host returning the document
\* plain as _encryptInsert stored it
ReadOne(c, options, plain) ==
  LET Read(cfg, doc, f) ==
        /\ probe = Idle
        /\ probe' = [op |-> "findOne", c |-> c, options |-> options, plain |-> plain,
                     doc |-> doc, d |-> f.d, result |-> f.result]
        /\ UNCHANGED <<base, eff, store, caches, resets, last, fibers>>
      Stored(cfg, eo) ==
        Read(cfg, encryptInsert(plain, eo, "ok").v,
             findOne(cfg.base, cfg.eff, caches, "ok", Undefined, options,
                     encryptInsert(plain, eo, "ok").v))
      Configured(cfg) ==
        Stored(cfg, collectionEncryptionOptions(cfg.base, cfg.eff, "insert", Undefined).r)
  IN Configured(configureEncryption(NoBase, NoEff, c, FALSE))

NextReads ==
  \/ \E c \in ReadConfigs, name \in {"fetch", "forEach", "map"}, options \in CallOptions,
        plains \in ResultLists :
       Iterate(c, name, options, plains)
  \/ \E c \in ReadConfigs, options \in CallOptions, plain \in ResultDocuments :
       ReadOne(c, options, plain)
  \/ Clear

SpecReads == Init /\ [][NextReads]_vars

\* a cursor of find has been iterated
Iterating == probe # Idle /\ probe.op \in {"fetch", "forEach", "map"} /\ probe.wrapped

\* what the caller gets of the documents docs
Delivered(name, docs) == IF name = "map" THEN [i \in 1..Len(docs) |-> FnOf(docs[i])] ELSE docs

\* C19: when find was called with fastAutoEncryption true, fetch, forEach and
\* map call the configuration function for no result document and deliver
\* every document decrypted under the configuration that find resolved;
\* otherwise a configuration function is called once for every result
\* document, in the order of the results, under the name of the method and
\* with {document, selector, options} as its argument.
C19_CursorFastPath ==
  Iterating =>
    IF probe.options = FastOptions
      THEN /\ probe.it.fa = <<>>
           /\ probe.it.cf = 0
           /\ ~probe.it.threw
           /\ probe.it.out = Delivered(probe.op, probe.plains)
           /\ probe.it.dtf = Len(probe.docs)
      ELSE /\ probe.c.isFn =>
                probe.it.fa =
                  [i \in 1..Len(probe.docs) |->
                     [name |-> probe.op,
                      args |-> [document |-> probe.docs[i], selector |-> Undefined,
                                options |-> probe.options]]]
           /\ ~probe.c.isFn => probe.it.fa = <<>>

\* two documents are mapped on the fast path under a configuration function
\* that would decline for either
C19_Witness ==
  /\ Iterating
  /\ probe.op = "map"
  /\ probe.options = FastOptions
  /\ probe.c = Function("maybe", encOptions, SchString)
  /\ Len(probe.docs) = 2
  /\ probe.plains[1] # probe.plains[2]
  /\ probe.docs[1] # probe.plains[1]
  /\ probe.it.out = Delivered("map", probe.plains)
  /\ probe.it.cf = 0

\* without the flag the configuration function is called for each of two
\* documents
C19_WitnessSlow ==
  /\ Iterating
  /\ probe.op = "fetch"
  /\ probe.options = NoOptions
  /\ probe.c = Function("const", encOptions, SchString)
  /\ Len(probe.docs) = 2
  /\ Len(probe.it.fa) = 2
  /\ probe.it.fa[2].args.document = probe.docs[2]

\* findOne has been called with fastAutoEncryption true on a collection
\* configured with a function
FastFindOne ==
  /\ probe # Idle
  /\ probe.op = "findOne"
  /\ probe.options = FastOptions
  /\ probe.c.isFn

\* C20: when findOne is called with fastAutoEncryption true, the
\* configuration function is called once, for the findOne call, and the
\* result document is returned decrypted under the configuration that call
\* resolved.
C20_FindOneFastPath ==
  FastFindOne => probe.d.cf = 1 /\ probe.result = probe.plain

\* the configuration function is called a second time, for the result
C20_SecondInvocation ==
  /\ FastFindOne
  /\ probe.c = Function("const", encOptions, SchString)
  /\ probe.d.cf = 2
  /\ probe.result = probe.plain

\* a configuration function that declines for a result document leaves the
\* result of a fast findOne encrypted
C20_ResultLeftEncrypted ==
  /\ FastFindOne
  /\ probe.c = Function("maybe", encOptions, SchString)
  /\ probe.d.cf = 2
  /\ probe.result = probe.doc
  /\ probe.result # probe.plain

-----------------------------------------------------------------------------
(* Calls of the configuration function                                      *)

\* a call on a collection configured with a function, fastAutoEncryption
\* not set
OnFunction(ops) ==
  /\ last.op \in ops
  /\ eff.kind = "function"
  /\ last.options # FastOptions

\* the calls of the configuration function that the call made, those of the
\* iteration of its cursor included
Asked ==
  IF last.op \in {"fetch", "forEach", "map"} /\ last.it # Undefined
    THEN last.d.cf + last.it.cf
    ELSE last.d.cf

\* C21: a function passed to configureEncryption is called once by an insert,
\* once by a remove, twice by an update, and by findOne and by find with
\* fetch, forEach or map once for the call and once more for each result
\* document, when fastAutoEncryption is not set; the update and the reads
\* counted are those that reach the host.
C21_ConfigurationCalls ==
  /\ OnFunction({"insert", "remove"}) => Asked = 1
  /\ (OnFunction({"update"}) /\ last.d.called) => Asked = 2
  /\ (OnFunction(ReadOps) /\ last.res # Thrown) => Asked = 1 + Len(last.src)

\* an update that encrypts its mutator has called the configuration function
\* once
C21_UpdateAsksOnce ==
  /\ OnFunction({"update"})
  /\ last.d.called
  /\ last.d.etf = 1
  /\ last.d.hmut # last.mutator
  /\ Asked = 1

\* the counts that hold: as C21 states them, with one call for an update
C21_OncePerUpdate ==
  /\ OnFunction({"insert", "remove", "update"}) => Asked = 1
  /\ (OnFunction(ReadOps) /\ last.res # Thrown) => Asked = 1 + Len(last.src)

\* a fetch of one result document has called the configuration function twice
C21_FetchAsksTwice ==
  /\ OnFunction({"fetch"})
  /\ Len(last.src) = 1
  /\ Asked = 2

-----------------------------------------------------------------------------
(* The calls made on the collection under per-field resolvers, under a     *)
(* configuration function that returns them, and under safe: true          *)

safeOptions == Merge(encOptions, [safe |-> TRUE])

ResolverSchemas == {SchFnTrue, SchFnFalsy}

CallConfigs ==
  {Static(encOptions, sch) : sch \in ResolverSchemas}
    \cup {Function("const", encOptions, SchFnTrue),
          Static(encOptions, SchString), Static(safeOptions, SchString)}

\* { string: { $in: ["hello", "bye"] } }
SelInTwo ==
  Obj(<<Field("string", Obj(<<Field("$in", Arr(<<Str("hello"), Str("bye")>>))>>))>>)

CallSelectors == {Undefined, SelId, SelString, SelInTwo}

NextCalls ==
  \/ \E c \in CallConfigs : Configure(c, FALSE)
  \/ Insert(DocPlain, NoOptions, "ok")
  \/ \E selector \in CallSelectors, S \in SUBSET Positions :
       Update(selector, MutSet, NoOptions, "ok", S)
  \/ \E selector \in CallSelectors, S \in SUBSET Positions :
       Remove(selector, NoOptions, "ok", S)
  \/ \E name \in {"fetch", "forEach", "map"}, selector \in CallSelectors,
        options \in {NoOptions, FastOptions}, S \in SUBSET Positions :
       FindThen(name, selector, options, "ok", S)
  \/ \E selector \in CallSelectors, i \in {0} \cup Positions :
       FindOne(selector, NoOptions, "ok", i)
  \/ Return

SpecCalls == Init /\ [][NextCalls]_vars

-----------------------------------------------------------------------------
(* Calls of a per-field resolver *)

\* a resolver function is the schema's entry for the field "string"
ResolverOn(ops) ==
  /\ last.op \in ops
  /\ \/ eff.kind = "object" /\ eff.schema \in {EncryptionSchema(sch) : sch \in ResolverSchemas}
     \/ eff.kind = "function" /\ eff.c.schema \in ResolverSchemas

\* the entries of the object v that are keyed "string"
Mentioning(v) ==
  IF v.t = "obj" THEN SelectSeq(v.e, LAMBDA en : en[1] = Key("string")) ELSE <<>>

\* the number of times the object v mentions the field
Mentions(v) == Len(Mentioning(v))

\* the number of values the object v gives for the field: the operand of a
\* mention, or each value listed under $in
ValuesAt(v) ==
  LET Listed(operand) ==
        IF operand.t = "obj" /\ Len(operand.e) = 1 /\ operand.e[1][1] = Key("$in")
             /\ operand.e[1][2].t = "arr"
          THEN Len(operand.e[1][2].a) ELSE 1
      RECURSIVE Sum(_, _)
      Sum(ens, i) == IF i > Len(ens) THEN 0 ELSE Listed(ens[i][2]) + Sum(ens, i + 1)
  IN Sum(Mentioning(v), 1)

\* the mentions in the documents of the entries src
RECURSIVE MentionsIn(_, _)
MentionsIn(src, i) ==
  IF i > Len(src) THEN 0 ELSE Mentions(src[i].doc) + MentionsIn(src, i + 1)

\* the operand of $set
SetOf(mutator) == mutator.e[1][2]

\* the resolver calls of the call the caller is in
ResolverCalls ==
  IF last.op \in {"fetch", "forEach", "map"} /\ last.it # Undefined
    THEN last.d.rc + last.it.rc
    ELSE last.d.rc

C22_TwicePerList ==
  /\ ResolverOn({"fetch"}) /\ last.res # Thrown
  /\ last.selector = SelInTwo /\ Mentions(last.selector) = 1
  /\ ResolverCalls = 2

-----------------------------------------------------------------------------
(* What a per-field resolver is called with *)

CursorOps == {"fetch", "forEach", "map"}

\* the resolver calls of the call the caller is in, in order
ResolverGiven ==
  IF last.op \in CursorOps /\ last.it # Undefined
    THEN last.d.ra \o last.it.ra
    ELSE last.d.ra

\* call names the operation and holds what the caller passed to it, and for
\* a result the document the host returned
OfCaller(call) ==
  CASE last.op = "insert" ->
         call = Call("insert", [document |-> last.doc, options |-> last.options])
    [] last.op = "update" ->
         call = Call("update", [selector |-> last.selector, mutator |-> last.mutator,
                                options |-> last.options])
    [] last.op = "remove" ->
         call = Call("remove", [selector |-> last.selector, options |-> last.options])
    [] last.op = "findOne" ->
         \/ call = Call("findOne", [selector |-> last.selector, options |-> last.options])
         \/ \E i \in 1..Len(last.src) :
              call = Call("findOne", [document |-> last.src[i].doc,
                                      selector |-> last.selector, options |-> last.options])
    [] OTHER ->
         \/ call = Call("find", [selector |-> last.selector, options |-> last.options])
         \/ \E i \in 1..Len(last.src) :
              call = Call(last.op, [document |-> last.src[i].doc,
                                    selector |-> last.selector, options |-> last.options])

CallOps == {"insert", "update", "remove", "findOne"} \cup CursorOps

\* C23: a per-field resolver is called with the name of the triggering
\* operation ("insert", "update", "remove", "find", "findOne", and "fetch",
\* "map" or "forEach" for the results of a cursor) and with a context that
\* holds the caller's own selector, mutator, document and options for that
\* operation, untransformed, and no entry that does not apply to it
C23_ResolverArguments ==
  last.op \in CallOps =>
    \A j \in 1..Len(ResolverGiven) : OfCaller(ResolverGiven[j])

\* a findOne by the field found a document, and the resolver was called for
\* the field of the result with the selector that went to the host, the field
\* in it encrypted
C23_ResultGivenCiphertext ==
  /\ ResolverOn({"findOne"}) /\ last.selector = SelString /\ Len(last.src) = 1
  /\ Len(last.d.ra) = 2
  /\ last.d.ra[1].args.selector = last.selector
  /\ last.d.ra[2].args.selector = last.d.hsel
  /\ last.d.ra[2].args.selector.e[1][2].t = "bin"

\* but for the results of findOne, the resolver is called with the name and
\* with what the caller passed
C23_ButForFindOne ==
  last.op \in CallOps \ {"findOne"} =>
    \A j \in 1..Len(ResolverGiven) : OfCaller(ResolverGiven[j])

\* fetch called the resolver with the caller's selector and the document
C23_FetchGivenSelector ==
  /\ ResolverOn({"fetch"}) /\ last.selector = SelString /\ Len(last.src) = 1
  /\ Len(ResolverGiven) = 2
  /\ ResolverGiven[2] = Call("fetch", [document |-> last.src[1].doc,
                                       selector |-> SelString, options |-> last.options])

-----------------------------------------------------------------------------
(* What the configuration function is called with *)

\* the collection is configured with a function and the caller is in one of
\* the operations ops
FunctionOn(ops) == last.op \in ops /\ eff.kind = "function"

\* the name under which the caller knows the operation that is asked about
\* first: a cursor is made by find
Triggering == IF last.op \in CursorOps THEN "find" ELSE last.op

\* C29: a function passed to configureEncryption receives as its first
\* argument the name of the operation that triggered it: "insert" for insert,
\* "update" for update, "remove" for remove, "find" for find and "findOne"
\* for findOne
C29_OperationName ==
  (FunctionOn(CallOps) /\ Len(last.d.fa) > 0) => last.d.fa[1].name = Triggering

\* remove called the configuration function once, with the name "findOne"
C29_RemoveNamedFindOne ==
  /\ FunctionOn({"remove"}) /\ last.selector = SelString
  /\ last.d.fa = <<Call("findOne", [selector |-> SelString, options |-> last.options])>>

\* but for remove, the first argument is the name of the operation
C29_ButForRemove ==
  (FunctionOn(CallOps \ {"remove"}) /\ Len(last.d.fa) > 0) =>
    last.d.fa[1].name = Triggering

\* insert called the configuration function with the name "insert"
C29_InsertNamedInsert ==
  /\ FunctionOn({"insert"})
  /\ last.d.fa = <<Call("insert", [document |-> DocPlain, options |-> last.options])>>

\* the calls made for a result: those whose context holds a document, under
\* an operation that reads
ForResult(calls) == SelectSeq(calls, LAMBDA call : "document" \in DOMAIN call.args)

\* C30: when findOne decrypts its result, the configuration function and the
\* per-field resolvers receive in their context the caller's original,
\* unencrypted selector, as they do for the documents of a cursor
C30_ResultPhaseSelector ==
  last.op = "findOne" =>
    \A call \in {ForResult(last.d.fa \o last.d.ra)[j] :
                   j \in 1..Len(ForResult(last.d.fa \o last.d.ra))} :
      call.args.selector = last.selector

\* a findOne by the field found a document, and the configuration function
\* was called for the result with the selector that went to the host, the
\* field in it encrypted
C30_FunctionGivenCiphertext ==
  /\ FunctionOn({"findOne"}) /\ last.selector = SelString /\ Len(last.src) = 1
  /\ Len(last.d.fa) = 2
  /\ last.d.fa[2] = Call("result", [document |-> last.src[1].doc,
                                    selector |-> last.d.hsel, options |-> last.options])
  /\ last.d.hsel # last.selector

\* for the documents of a cursor the configuration function and the
\* resolvers receive the caller's selector
C30_CursorGivenOriginal ==
  (last.op \in CursorOps /\ last.it # Undefined) =>
    \A call \in {(last.it.fa \o last.it.ra)[j] : j \in 1..Len(last.it.fa \o last.it.ra)} :
      call.args.selector = last.selector

\* fetch by the field called the configuration function for a document
C30_FetchFunctionGiven ==
  /\ FunctionOn({"fetch"}) /\ last.selector = SelString /\ Len(last.src) = 1
  /\ last.it # Undefined /\ Len(last.it.fa) = 1 /\ Len(last.it.ra) = 1
  /\ last.it.fa[1].args.selector = SelString

-----------------------------------------------------------------------------
(* A configuration function whose schema depends on the document: the      *)
(* documents of several accounts are inserted, then read by one find       *)

\* { value: "Hello World", searchableValue: ["hello world", "hello"] }
FlexField ==
  Obj(<<Field("value", Str("Hello World")),
        Field("searchableValue", Arr(<<Str("hello world"), Str("hello")>>))>>)

\* { _id, accountId, flex: { field1: {...}, field3: {...} } }
FlexDocument(id, accountId) ==
  Obj(<<Field("_id", Str(id)), Field("accountId", Str(accountId)),
        Field("flex", Obj(<<Field("field1", FlexField), Field("field3", FlexField)>>))>>)

\* documents of the two accounts that have a configuration and of one that
\* has none
FlexDocuments ==
  {FlexDocument("1", "account1"), FlexDocument("2", "account2"),
   FlexDocument("3", "account3"), FlexDocument("4", "account1")}

FlexLists == UNION {[1..n -> FlexDocuments] : n \in 0..MaxResults}

\* configureEncryption(encOptions, false); configureEncryption(fn); then
\* collection.insert(doc) for each of plains, collection.find({}, options) and
\* fetch, forEach or map over what the inserts handed to the host
InsertThenFind(name, options, plains) ==
  LET Iterated(ins, f, it) ==
        /\ probe = Idle
        /\ probe' = [op |-> name, options |-> options, plains |-> plains, ins |-> ins,
                     wrapped |-> f.wrapped, it |-> it]
        /\ UNCHANGED <<base, eff, store, caches, resets, last, fibers>>
      Found(cfg, ins, f) ==
        Iterated(ins, f, cursorIterate(name, cfg.base, cfg.eff, f,
                                       [i \in 1..Len(ins) |-> ins[i].hdoc], f.d.K))
      Inserted(cfg, ins) ==
        Found(cfg, ins,
              find(cfg.base, cfg.eff, IF ins = <<>> THEN caches ELSE ins[Len(ins)].K, "ok",
                   Obj(<<>>), options))
      RECURSIVE insertEach(_, _, _)
      insertEach(cfg, i, ins) ==
        IF i > Len(plains) THEN ins
        ELSE insertEach(cfg, i + 1,
               Append(ins, insert(cfg.base, cfg.eff,
                                  IF ins = <<>> THEN caches ELSE ins[Len(ins)].K, "ok",
                                  plains[i], NoOptions)))
      Configured(cfg) == Inserted(cfg, insertEach(cfg, 1, <<>>))
      Defaults(cfg) ==
        Configured(configureEncryption(cfg.base, cfg.eff,
                                       Function("flex", EmptyOpts, NoMatch), TRUE))
  IN Defaults(configureEncryption(NoBase, NoEff, Static(encOptions, NoMatch), FALSE))

NextFlex ==
  \/ \E name \in {"fetch", "forEach", "map"}, options \in {NoOptions, FastOptions},
        plains \in FlexLists :
       InsertThenFind(name, options, plains)
  \/ Clear

SpecFlex == Init /\ [][NextFlex]_vars

\* the fields under flex that the account's schema designates
FieldsOf(accountId) ==
  CASE accountId = "account1" -> {"field1"}
    [] accountId = "account2" -> {"field3"}
    [] OTHER -> {}

\* a field of flex with its value and every element of its searchableValue
\* encrypted
EncryptedField(field) ==
  Obj(<<Field("value", Bin(field.e[1][2], "Deterministic")),
        Field("searchableValue",
              Arr([j \in 1..Len(field.e[2][2].a) |->
                     Bin(field.e[2][2].a[j], "Deterministic")]))>>)

\* the document plain with the fields of its account encrypted and everything
\* else as it is
StoredAs(plain) ==
  LET flex == plain.e[3][2].e
      designated == FieldsOf(plain.e[2][2].s)
  IN Obj(<<plain.e[1], plain.e[2],
           Field("flex",
                 Obj([j \in 1..Len(flex) |->
                        IF flex[j][1][1] \in designated
                          THEN <<flex[j][1], EncryptedField(flex[j][2])>>
                          ELSE flex[j]]))>>)

\* C24: with a configuration function whose schema depends on the document,
\* insert encrypts exactly the fields that the schema resolved for the
\* inserted document designates and stores every other field as plaintext,
\* and one find().fetch() over documents that resolve to different
\* configurations decrypts each with its own: every field comes back as
\* plaintext
C24_PerDocumentConfiguration ==
  (probe.op \in CursorOps /\ "ins" \in DOMAIN probe) =>
    /\ \A i \in 1..Len(probe.plains) :
         /\ probe.ins[i].called /\ ~probe.ins[i].threw
         /\ probe.ins[i].hdoc = StoredAs(probe.plains[i])
    /\ (probe.op = "fetch" /\ probe.options = NoOptions) =>
         (~probe.it.threw /\ probe.it.out = probe.plains)

\* the documents of two accounts were stored with different fields encrypted
\* and one fetch returned both in the clear
C24_TwoAccountsFetched ==
  /\ probe.op = "fetch" /\ "ins" \in DOMAIN probe /\ probe.options = NoOptions
  /\ probe.plains = <<FlexDocument("1", "account1"), FlexDocument("2", "account2")>>
  /\ probe.ins[1].hdoc.e[3][2].e[1][2].e[1][2].t = "bin"
  /\ probe.ins[1].hdoc.e[3][2].e[2][2] = FlexField
  /\ probe.ins[2].hdoc.e[3][2].e[1][2] = FlexField
  /\ probe.ins[2].hdoc.e[3][2].e[2][2].e[1][2].t = "bin"
  /\ probe.it.cf = 2
  /\ probe.it.out = probe.plains

-----------------------------------------------------------------------------
(* safe: true *)

\* the field "string" is designated by a static schema and the caller is in
\* a read that the host answered with one document
ReadOfString ==
  /\ last.op \in ReadOps
  /\ eff.kind = "object" /\ eff.schema = EncryptionSchema(SchString)
  /\ Len(last.src) = 1

\* the value of the field in the document the host returned
StoredString == last.src[1].doc.e[2][2]

\* the provider decrypt calls of the read: the provider calls that were not
\* made for an encrypt conversion of the selector
DecryptCalls ==
  IF last.op \in CursorOps
    THEN (IF last.it = Undefined THEN 0 ELSE last.it.pv)
    ELSE last.d.pv - last.d.etf

\* the documents the read returned
ReturnedDocs == IF last.op = "findOne" THEN <<last.res>> ELSE last.res.a

\* C25: with safe: true in the effective options the decrypt transform
\* returns a value that is not binary unchanged and calls no provider decrypt
\* for it, and a binary value is still decrypted; without safe, decrypting a
\* non-binary value at a designated path makes the read fail
C25_SafeDecryption ==
  ReadOfString =>
    /\ (Option(eff.o, "safe") /\ StoredString.t # "bin") =>
         /\ last.res # Thrown
         /\ DecryptCalls = 0
         /\ last.op \in {"findOne", "fetch"} => ReturnedDocs = <<last.src[1].doc>>
    /\ (Option(eff.o, "safe") /\ StoredString.t = "bin") =>
         /\ last.res # Thrown
         /\ DecryptCalls = 1
         /\ last.op \in {"findOne", "fetch"} => ReturnedDocs = <<last.src[1].plain>>
    /\ (~Option(eff.o, "safe") /\ StoredString.t # "bin") => last.res = Thrown

\* a findOne under safe: true returned a document that was stored before the
\* field was designated, the field as it is
C25_SafeReadOfPlain ==
  /\ ReadOfString /\ last.op = "findOne" /\ Option(eff.o, "safe")
  /\ StoredString = Str("hello")
  /\ last.d.dtf = 1 /\ DecryptCalls = 0
  /\ last.res = DocPlain

\* a read under safe: true decrypted a binary value
C25_SafeReadOfBinary ==
  /\ ReadOfString /\ last.op = "fetch" /\ Option(eff.o, "safe")
  /\ StoredString.t = "bin" /\ DecryptCalls = 1
  /\ last.res = Arr(<<DocPlain>>)

\* a read without safe failed on a value that is not binary
C25_UnsafeReadFails ==
  /\ ReadOfString /\ ~Option(eff.o, "safe")
  /\ StoredString = Str("hello") /\ last.res = Thrown

-----------------------------------------------------------------------------
(* Values at keys that the schema does not designate *)

\* the selector or document handed to the walk under way
Payload == IF probe.op = "selector" THEN probe.selector ELSE probe.doc

\* the entry of the payload is a value given directly at the key "other",
\* which no schema designates
Undesignated(en) ==
  /\ en[1] = Key("other")
  /\ ~(en[2].t = "obj" /\ HasOperatorKey(en[2]))

\* C26: the walker copies a value at a key that the schema does not designate
\* unchanged, whatever its kind, null included: inserting {other: null} or
\* querying by {other: null} completes and passes other: null through
C26_UndesignatedCopied ==
  probe.op \in {"selector", "insert", "decrypt"} =>
    \A i \in 1..Len(Payload.e) :
      Undesignated(Payload.e[i]) =>
        /\ probe.out.v # Thrown
        /\ \E j \in 1..Len(probe.out.v.e) : probe.out.v.e[j] = Payload.e[i]

\* _encryptInsert({other: null}) under a schema that designates string throws
C26_NullThrows ==
  /\ probe.op = "insert" /\ probe.schema = SchString
  /\ probe.doc = Obj(<<Field("other", Null)>>)
  /\ probe.out.v = Thrown

\* _encryptSelector({other: null}) under a schema that designates string throws
C26_NullSelectorThrows ==
  /\ probe.op = "selector" /\ probe.schema = SchString
  /\ probe.selector = Obj(<<Field("other", Null)>>)
  /\ probe.out.v = Thrown

\* but for null, a value at an undesignated key is copied unchanged
C26_ButForNull ==
  probe.op \in {"selector", "insert", "decrypt"} =>
    \A i \in 1..Len(Payload.e) :
      (Undesignated(Payload.e[i]) /\ Payload.e[i][2] # Null
         /\ \A k \in 1..Len(Payload.e) : Payload.e[k][2] # Null) =>
        /\ probe.out.v # Thrown
        /\ \E j \in 1..Len(probe.out.v.e) : probe.out.v.e[j] = Payload.e[i]

\* an array at an undesignated key of a selector was copied unchanged
C26_ArrayCopied ==
  /\ probe.op = "selector" /\ probe.schema = SchString
  /\ probe.selector = Obj(<<Field("other", Arr(<<Str("1"), Str("2")>>))>>)
  /\ probe.out.v = probe.selector

-----------------------------------------------------------------------------
(* A resolver that returns a falsy value *)

\* _encryptInsert({string: v}) under a schema whose entry for string is a
\* resolver that returns a falsy value
FalsyResolverAt(v) ==
  /\ probe.op = "insert" /\ probe.schema = SchFnFalsy
  /\ probe.doc = Obj(<<Field("string", v)>>)

\* C27: when the resolver that is the leaf for a field returns a falsy value,
\* the walk completes without error and the field's value appears unchanged
\* in the output, whether it is a scalar or a non-empty container
C27_FalsyResolverKeeps ==
  \A v \in DirectValues :
    FalsyResolverAt(v) => (probe.out.v # Thrown /\ probe.out.v = probe.doc)

\* the resolver was invoked once for an array of two values, returned a falsy
\* value, and the walk threw
C27_ContainerThrows ==
  /\ FalsyResolverAt(Arr(<<Str("1"), Str("2")>>))
  /\ probe.out.rc = 1
  /\ probe.out.v = Thrown

\* a scalar is kept
C27_ScalarKept ==
  FalsyResolverAt(Str("hello")) => (probe.out.rc = 1 /\ probe.out.v = probe.doc)

\* the resolver was invoked once for a scalar, which was kept
C27_ScalarWalked ==
  /\ FalsyResolverAt(Str("hello"))
  /\ probe.out.rc = 1 /\ probe.out.v = probe.doc

-----------------------------------------------------------------------------
(* An exact entry beside a wildcard or an array sentinel *)

\* the walk of {object: {inner: v, plain: "x"}} left inner as it was
InnerKept ==
  /\ probe.out.v # Thrown
  /\ probe.out.v.e[1][2].e[1] = probe.doc.e[1][2].e[1]

\* C28: an exact entry for a key takes precedence over the "$" and "*"
\* entries beside it, and the outcome is that of the key's own leaf (no match
\* when the leaf is false), both when the key is looked up by its dotted path
\* and when a nested object is walked key by key
C28_ExactPrecedence ==
  \A schema \in ExactSchemas :
    /\ (probe.op = "lookup" /\ probe.schema = schema
          /\ probe.path = <<"object", "inner">>) => probe.out.r = NoMatch
    /\ (probe.op = "insert" /\ probe.schema = schema
          /\ \E v \in DirectValues : probe.doc = NestedForm(v)) => InnerKept

\* the walk of {object: {inner: "hello", plain: "x"}} encrypted inner, whose
\* own leaf is false, under the wildcard beside it
C28_WalkedToWildcard ==
  /\ probe.op = "insert" /\ probe.schema = SchExactWildcard
  /\ probe.doc = NestedForm(Str("hello"))
  /\ probe.out.v.e[1][2].e[1] = Field("inner", Bin(Str("hello"), "Deterministic"))

\* looked up by its dotted path, the key's own leaf decides
C28_ByDottedPath ==
  \A schema \in ExactSchemas :
    (probe.op = "lookup" /\ probe.schema = schema
       /\ probe.path = <<"object", "inner">>) => probe.out.r = NoMatch

\* the dotted path of the false entry was looked up beside the wildcard
C28_LookedUp ==
  /\ probe.op = "lookup" /\ probe.schema = SchExactWildcard
  /\ probe.path = <<"object", "inner">>
  /\ probe.out.r = NoMatch
====
